---- MODULE Spec2Model ----
(***************************************************************************)
(* py-load-euctr: the extraction-to-load pipeline.                         *)
(*                                                                         *)
(*   SpecFetch      EuctrExtractor._fetch_url, one call, step by step      *)
(*   SpecExtract    CtisExtractor.extract_trials and                       *)
(*                  EuctrExtractor.extract_trials, invoked one time after  *)
(*                  the other on one extractor                             *)
(*   SpecExtractLive  SpecExtract with an event loop that keeps running    *)
(*                  and a consumer that keeps iterating                    *)
(*   SpecSink       PostgresLoader: one transaction, entered through the   *)
(*                  loader's own context manager or through get_conn       *)
(*   SpecPipeline   arun_pipeline, run after run against one database      *)
(*   SpecTransform  Transformer.transform_bronze_to_silver, executed       *)
(*                  repeatedly on one Bronze content                       *)
(*   SpecEncode     _records_to_csv_stream, one call                       *)
(*   SpecEnrich     the source_url given to the Bronze records             *)
(*   SpecRelease    SpecSink against a server that may fail the commit or  *)
(*                  rollback of the exit                                   *)
(*   SpecExample    example.py main, one run of the CTIS pipeline          *)
(*   SpecPrepare    PostgresLoader.prepare_schema, called repeatedly       *)
(*   SpecChunk      the copy loop of bulk_load_stream, one call            *)
(*   SpecRate       the request times of one page's detail fetches         *)
(*   SpecDownload   Fetcher.download_dataset (py_load_eurostat), called    *)
(*                  repeatedly on one cache directory                      *)
(*                                                                         *)
(* The variables come in groups (fetch, extraction, sink, pipeline,        *)
(* transform); a specification leaves the groups it does not use at their  *)
(* idle values. The pipeline and the transform work on the sink's          *)
(* connection and transaction.                                             *)
(***************************************************************************)
EXTENDS Integers, Sequences, FiniteSets, TLC

\* ---------------------------------------------------------------- bounds
\* max_retries is drawn from 0..MaxRetriesBound
MaxRetriesBound == 3
\* the source serves at most MaxPages non-empty search pages
MaxPages == 2
\* a search page lists at most MaxItems summaries
MaxItems == 2
\* an extractor's max_retries is drawn from 0..ExtRetriesBound
ExtRetriesBound == 2
\* extract_trials is invoked at most MaxInvocations times on one extractor
MaxInvocations == 2

\* --------------------------------------------------------------- values
None == "None"
Payloads == {"p1", "p2"}
\* random.uniform(0, 1) in tenths of a second: 0 <= jitter < 1
Jitters == {0, 5, 9}
\* what one network attempt can end in: a 2xx response with a JSON body, a
\* non-2xx status (raise_for_status), a transport error, a timeout, or a 2xx
\* response whose body is not JSON (response.json() raises a ValueError)
Outcomes == {"ok", "status", "transport", "timeout", "decode"}
HttpFailures == {"status", "transport", "timeout"}
\* the since-date handed to extract_trials: None or a date
Dates == {"2024-01-01"}
NoFilter == "no-filter"

VARIABLES
    \* ---- _fetch_url (one call)
    max_retries,    \* self.max_retries
    f_pc,           \* position in _fetch_url: loop, sleep, get, backoff, done
    attempt,        \* the for loop's variable
    f_result,       \* the value returned (None or a payload); "-" before return
    f_raised,       \* an exception left _fetch_url
    f_log,          \* what the call did, in order: sleeps and requests
    \* ---- extract_trials (one invocation of the generator)
    variant,        \* "ctis" (CtisExtractor) or "euctr" (EuctrExtractor)
    since,          \* from_decision_date / since_date
    e_pc,           \* fetch_page, details, done, raised
    page,           \* the page counter
    p_att,          \* attempt index of the search-page _fetch_url (euctr)
    search_results, \* the answer to the last search request
    tasks,          \* the page's detail fetches: index -> [att, res]
    completedQ,     \* finished, not yet taken fetches, in completion order
    consumed,       \* the fetches of the page the loop has taken
    yielded,        \* the fetches of the page whose record was yielded, in order
    lastReq,        \* the last search-page request sent: [page, filter, out]
    nPageReqs,      \* search-page requests sent
    nServed,        \* search-page requests answered with a page
    nIds,           \* identifiers on the pages served
    nYielded,       \* records yielded
    reqFailed,      \* a search-page request failed
    detailNotFull,  \* a detail fetch failed or returned an empty body
    emptyServed,    \* a page without summaries was served
    keylessServed,  \* a page with summaries, none with an identifier, was served
    e_raised,       \* an exception reached the consumer of the generator
    invocation,     \* the invocations of extract_trials on this extractor so far
    pageCalls,      \* the page numbers of the search-page fetches called, in order
    \* ---- the sink: one connection and its transaction
    impl,           \* "loader" (with loader as l) or "get_conn" (with loader.get_conn())
    s_pc,           \* out (before the with), body, raising, exited
    conn,           \* the connection: none, open, closed
    db,             \* what the database holds, as any other session sees it
    tx,             \* what the open transaction sees
    aborted,        \* a statement of the open transaction has failed
    exc,            \* the exception raised in the body of the with
    s_raised,       \* the exception that left the with statement
    tx_end,         \* how the transaction ended: "-", commit, rollback
    db0,            \* what the database held when the with was entered
    s_log,          \* the loader operations of the body, in order
    cursor,         \* PostgresLoader.cursor: none, open, closed
    outside,        \* the loader operation called outside the with, if any
    end_ok,         \* the server answers the commit or rollback of the exit
    \* ---- arun_pipeline
    source,         \* the records the source holds
    header_ok,      \* the Bronze table's columns all accept the header line's text
    p_pc,           \* idle, prepare, extract, load, transform, exit
    runs,           \* runs started
    raw_records,    \* the records extracted in this run
    all_ok_full,    \* every run so far committed after loading the whole source
    loaded,         \* this run's bulk load succeeded
    p_raised,       \* the exception arun_pipeline raised to its caller
    load_mode,      \* the run's load_mode argument: full, delta
    since_date,     \* the run's since_date argument: None or a text
    delta_since,    \* the since_date handed to extract_trials; "-" before
    \* ---- transform_bronze_to_silver executed repeatedly
    t_runs,         \* executions so far
    t_first,        \* the Silver table after the first execution
    \* ---- _records_to_csv_stream, one call
    enc_in,         \* the records handed to the encoder
    enc_pc,         \* ready, done
    enc_out,        \* the lines of the stream it returned
    \* ---- the source_url of the Bronze records
    en_variant,     \* "euctr" (cli.py) or "ctis" (example.py)
    en_pc,          \* fetched, extracted, enriched
    en_fetched,     \* the detail records fetched: the URL requested, the body
    en_raw,         \* the records the extractor yielded
    en_bronze,      \* the Bronze records made of them
    \* ---- example.py main, one run of the CTIS pipeline
    x_mode,         \* load_type: full, delta
    x_prior,        \* what the database holds before the run
    x_source,       \* the number of trials the source holds
    x_pc,           \* start, prepare, lookup, extract, exit, done
    x_opened,       \* connections opened so far in the run
    x_open,         \* the connections open now
    x_log,          \* the database operations of the run: [op, conn]
    x_from,         \* from_decision_date
    x_exc,          \* the exception that is leaving the with, if any
    \* ---- PostgresLoader.prepare_schema, called repeatedly
    ps_db,          \* the namespaces and tables of the database
    ps_before,      \* the same before the last call
    ps_calls,       \* the calls made: [schema_name, table_name]
    \* ---- the copy loop of bulk_load_stream, one call
    ch_impl,        \* "loader" (loader/postgres.py) or "loaders" (loaders/postgres.py)
    ch_len,         \* the length of data_stream in bytes
    ch_pos,         \* the stream's read position
    ch_writes,      \* the chunks written to the copy: [from, len]
    ch_pc,          \* read, done
    \* ---- the requests of one EuctrExtractor in time (tenths of a second)
    r_now,          \* the time of the last event
    r_tasks,        \* the page's _fetch_url calls: [att, wake, pc]
    r_reqs,         \* the times at which requests were issued, in order
    \* ---- Fetcher.download_dataset (py_load_eurostat), call after call
    dl_toc,         \* the dataset codes the server's table of contents lists
    dl_calls,       \* calls of download_dataset so far
    dl_code,        \* the dataset_code of the call
    dl_pc,          \* idle, stream, write, done
    dl_cache,       \* the cache directory: per code absent, partial, complete
    dl_cache0,      \* the cache directory when the call began
    dl_reqs,        \* the requests of the call: [url, out]
    dl_chunks,      \* chunks written in the call
    dl_result,      \* what the call returned: "-", None, the file's code
    dl_raised       \* an exception left the call

fetchVars == <<f_pc, attempt, f_result, f_raised, f_log>>
extVars == <<variant, since, e_pc, page, p_att, search_results, tasks,
             completedQ, consumed, yielded, lastReq, nPageReqs, nServed, nIds,
             nYielded, reqFailed, detailNotFull, emptyServed, keylessServed,
             e_raised, invocation, pageCalls>>

sinkVars == <<impl, s_pc, conn, db, tx, aborted, exc, s_raised, tx_end, db0,
              s_log, cursor, outside, end_ok>>
argVars == <<load_mode, since_date, delta_since>>
pipeVars == <<source, header_ok, p_pc, runs, raw_records, all_ok_full, loaded,
              p_raised, argVars>>
transformVars == <<t_runs, t_first>>
encVars == <<enc_in, enc_pc, enc_out>>
enrVars == <<en_variant, en_pc, en_fetched, en_raw, en_bronze>>
exVars == <<x_mode, x_prior, x_source, x_pc, x_opened, x_open, x_log, x_from,
            x_exc>>
psVars == <<ps_db, ps_before, ps_calls>>
chVars == <<ch_impl, ch_len, ch_pos, ch_writes, ch_pc>>
rateVars == <<r_now, r_tasks, r_reqs>>
dlVars == <<dl_toc, dl_calls, dl_code, dl_pc, dl_cache, dl_cache0, dl_reqs,
            dl_chunks, dl_result, dl_raised>>
auxVars == <<exVars, psVars, chVars, rateVars, dlVars>>
storeVars == <<sinkVars, pipeVars, transformVars, encVars, enrVars, auxVars>>

vars == <<max_retries, fetchVars, extVars, storeVars>>

\* ------------------------------------------------------------ _fetch_url
RECURSIVE Pow2(_)
Pow2(k) == IF k = 0 THEN 1 ELSE 2 * Pow2(k - 1)

\* a handler that catches only HTTPStatusError
CaughtStatusOnly(outcome) == outcome = "status"

\* except httpx.HTTPError: HTTPStatusError, TransportError and the timeouts
\* are its subclasses; a ValueError from response.json() is not
Caught(outcome) == outcome \in {"status", "transport", "timeout"}

\* a backoff that does not grow with the attempt index
BackoffTimeFlat(k, jitter) == 10 + jitter

\* backoff_time = (2**attempt) + random.uniform(0, 1), in tenths of a second
BackoffTime(k, jitter) == 10 * Pow2(k) + jitter

\* an exhaustion test that is off by one: gives up one attempt early
AttemptStepEarlyExhaustion(att, outcome) ==
    IF outcome = "ok" THEN "return_json"
    ELSE IF ~Caught(outcome) THEN "raise"
    ELSE IF att + 2 >= max_retries THEN "return_none"
    ELSE "backoff"

\* a handler without the exhaustion test: every caught failure is followed
\* by a backoff wait, and the `return None` after the loop ends the call
AttemptStepBackoffAlways(att, outcome) ==
    IF outcome = "ok" THEN "return_json"
    ELSE IF ~Caught(outcome) THEN "raise"
    ELSE "backoff"

\* what one attempt's outcome leads to, by the try/except of the loop body
AttemptStep(att, outcome) ==
    IF outcome = "ok" THEN "return_json"
    ELSE IF ~Caught(outcome) THEN "raise"
    ELSE IF att + 1 = max_retries THEN "return_none"
    ELSE "backoff"

\* a loop that makes one turn more: range(self.max_retries + 1)
InRangeInclusive(att, n) == att <= n

\* `for attempt in range(self.max_retries)`: the loop has a turn for attempt
InRange(att, n) == att < n

\* a politeness wait made before the first attempt only
TryEntryFirstOnly(att) == IF att = 0 THEN "sleep" ELSE "get"

\* the first statement of the try, in every iteration of the loop:
\* await asyncio.sleep(self.rate_limit_delay)
TryEntry(att) == "sleep"

LogEntry(ev, k, out, pay, dur) ==
    [ev |-> ev, k |-> k, out |-> out, pay |-> pay, dur |-> dur]

\* the extractor is not running
\* an exception value that stands for "no exception"
NoExc == "-"
\* a database without tables
EmptyDb == [tables |-> {}, bronze |-> <<>>, silver |-> <<>>]

\* no sink transaction, no pipeline run, no transform
\* no loader operation was called outside the with
NoOutside == [op |-> "-", at |-> "-", raised |-> "-"]

SinkIdle ==
    /\ impl = "-"
    /\ s_pc = "idle"
    /\ conn = "none"
    /\ db = EmptyDb
    /\ tx = EmptyDb
    /\ aborted = FALSE
    /\ exc = NoExc
    /\ s_raised = NoExc
    /\ tx_end = "-"
    /\ db0 = EmptyDb
    /\ s_log = <<>>
    /\ cursor = "none"
    /\ outside = NoOutside
    /\ end_ok = TRUE

PipeIdle ==
    /\ source = <<>>
    /\ header_ok = FALSE
    /\ p_pc = "off"
    /\ runs = 0
    /\ raw_records = <<>>
    /\ all_ok_full = TRUE
    /\ loaded = FALSE
    /\ p_raised = NoExc
    /\ load_mode = "-"
    /\ since_date = None
    /\ delta_since = "-"

TransformIdle ==
    /\ t_runs = 0
    /\ t_first = <<>>

EncIdle ==
    /\ enc_in = <<>>
    /\ enc_pc = "idle"
    /\ enc_out = <<>>

EnrIdle ==
    /\ en_variant = "-"
    /\ en_pc = "idle"
    /\ en_fetched = <<>>
    /\ en_raw = <<>>
    /\ en_bronze = <<>>

ExIdle ==
    /\ x_mode = "-"
    /\ x_prior = "-"
    /\ x_source = 0
    /\ x_pc = "idle"
    /\ x_opened = 0
    /\ x_open = {}
    /\ x_log = <<>>
    /\ x_from = "-"
    /\ x_exc = NoExc

NoObjects == [schemas |-> {}, tables |-> {}]

PsIdle ==
    /\ ps_db = NoObjects
    /\ ps_before = NoObjects
    /\ ps_calls = <<>>

ChIdle ==
    /\ ch_impl = "-"
    /\ ch_len = 0
    /\ ch_pos = 0
    /\ ch_writes = <<>>
    /\ ch_pc = "idle"

RateIdle ==
    /\ r_now = 0
    /\ r_tasks = <<>>
    /\ r_reqs = <<>>

\* no Fetcher
DlIdle ==
    /\ dl_toc = {}
    /\ dl_calls = 0
    /\ dl_code = "-"
    /\ dl_pc = "off"
    /\ dl_cache = <<>>
    /\ dl_cache0 = <<>>
    /\ dl_reqs = <<>>
    /\ dl_chunks = 0
    /\ dl_result = "-"
    /\ dl_raised = FALSE

AuxIdle == ExIdle /\ PsIdle /\ ChIdle /\ RateIdle /\ DlIdle

StoreIdle ==
    SinkIdle /\ PipeIdle /\ TransformIdle /\ EncIdle /\ EnrIdle /\ AuxIdle

\* extract_trials is not running
ExtIdle ==
    /\ variant = "-"
    /\ since = None
    /\ e_pc = "idle"
    /\ page = 0
    /\ p_att = 0
    /\ search_results = <<>>
    /\ tasks = <<>>
    /\ completedQ = <<>>
    /\ consumed = {}
    /\ yielded = <<>>
    /\ lastReq = <<>>
    /\ nPageReqs = 0
    /\ nServed = 0
    /\ nIds = 0
    /\ nYielded = 0
    /\ reqFailed = FALSE
    /\ detailNotFull = FALSE
    /\ emptyServed = FALSE
    /\ keylessServed = FALSE
    /\ e_raised = FALSE
    /\ invocation = 0
    /\ pageCalls = <<>>

FetchInit ==
    /\ ExtIdle
    /\ StoreIdle
    /\ max_retries \in 0..MaxRetriesBound
    /\ f_pc = "loop"
    /\ attempt = 0
    /\ f_result = "-"
    /\ f_raised = FALSE
    /\ f_log = <<>>

\* for attempt in range(self.max_retries): ... return None
ForLoop ==
    /\ f_pc = "loop"
    /\ IF InRange(attempt, max_retries)
         THEN /\ f_pc' = TryEntry(attempt)
              /\ UNCHANGED f_result
         ELSE /\ f_pc' = "done"
              /\ f_result' = None
    /\ UNCHANGED <<max_retries, attempt, f_raised, f_log, extVars, storeVars>>

\* await asyncio.sleep(self.rate_limit_delay)
RateLimitSleep ==
    /\ f_pc = "sleep"
    /\ f_log' = Append(f_log, LogEntry("rate", attempt, "-", "-", 0))
    /\ f_pc' = "get"
    /\ UNCHANGED <<max_retries, attempt, f_result, f_raised, extVars, storeVars>>

\* response = await self.client.get(...); raise_for_status(); return json()
\* and the except branch up to the return None of the exhaustion
Get ==
    /\ f_pc = "get"
    /\ \E outcome \in Outcomes, pay \in Payloads :
         LET p == IF outcome = "ok" THEN pay ELSE "-"
             step == AttemptStep(attempt, outcome)
         IN /\ f_log' = Append(f_log, LogEntry("get", attempt, outcome, p, 0))
            /\ f_pc' = IF step = "backoff" THEN "backoff" ELSE "done"
            /\ f_result' = CASE step = "return_json" -> p
                             [] step = "return_none" -> None
                             [] OTHER -> f_result
            /\ f_raised' = (step = "raise")
    /\ UNCHANGED <<max_retries, attempt, extVars, storeVars>>

\* backoff_time = ...; await asyncio.sleep(backoff_time); next iteration
Backoff ==
    /\ f_pc = "backoff"
    /\ \E jitter \in Jitters :
         f_log' = Append(f_log,
                     LogEntry("backoff", attempt, "-", "-", BackoffTime(attempt, jitter)))
    /\ attempt' = attempt + 1
    /\ f_pc' = "loop"
    /\ UNCHANGED <<max_retries, f_result, f_raised, extVars, storeVars>>

FetchNext == ForLoop \/ RateLimitSleep \/ Get \/ Backoff

SpecFetch == FetchInit /\ [][FetchNext]_vars

\* ====================================================================
\* extract_trials: CtisExtractor (src/py_load_euctr/extractor.py) and
\* EuctrExtractor (py_load_euctr/extractor/euctr.py)
\*
\* tasks, completedQ, consumed and yielded describe the page being dealt
\* with (they are replaced when the next page's answer arrives); the
\* counters n... and the flags summarise the whole invocation.
\* ====================================================================
\* the source answers a request with a JSON body, with a non-2xx status or
\* not at all (httpx.TransportError, which includes the timeouts)
ExtOutcomes == {"ok", "status", "transport"}
\* a detail body: a non-empty record or the empty object {}
Bodies == {"full", "empty"}

\* _fetch_url is not running
FetchIdle ==
    /\ f_pc = "idle"
    /\ attempt = 0
    /\ f_result = "-"
    /\ f_raised = FALSE
    /\ f_log = <<>>

\* `if from_decision_date:` / `if since_date:`
Truthy(s) == s # None

\* a filter that is sent with the first page only
PageQueryFirstPageOnly(n, s) ==
    [page |-> n, filter |-> IF Truthy(s) /\ n = 1 THEN s ELSE NoFilter]

\* the search request of page n: payload["advancedSearch"]["decisionDate"]
\* ["from"] (ctis), query_params["last-updated__gte"] (euctr)
PageQuery(n, s) ==
    [page |-> n, filter |-> IF Truthy(s) THEN s ELSE NoFilter]

PageReq(q, outcome) == [page |-> q.page, filter |-> q.filter, out |-> outcome]
NoReq == [page |-> 0, filter |-> NoFilter, out |-> "-"]

\* the summaries of a page: with a natural key ("key") or without ("nokey")
ItemSeqs == UNION {[1..n -> {"key", "nokey"}] : n \in 0..MaxItems}
EmptyPage == [items |-> <<>>, next |-> FALSE]
\* what the source can answer for page n
PageContents(n) ==
    IF n > MaxPages THEN {EmptyPage}
    ELSE {[items |-> it, next |-> b] : it \in ItemSeqs, b \in BOOLEAN}

\* a detail-fetch set that takes in every summary
IdentifiersAll(items) == 1..Len(items)

\* ct_numbers (ctis: summary.get("ctNumber")), trial_urls (euctr: "url" in trial)
Identifiers(items) == {i \in 1..Len(items) : items[i] = "key"}

\* tasks = [fetch(id) for id in identifiers]
NewTasks(ids) == [i \in ids |-> [att |-> 0, res |-> "-"]]

\* `if trial_details:`: None and {} are falsy
TruthyBody(b) == b = "full"

\* a handler that catches only httpx.RequestError
CtisCaughtRequestErrorOnly(outcome) == outcome \in {"transport", "timeout"}

\* except (httpx.RequestError, httpx.HTTPStatusError)
CtisCaught(outcome) == outcome \in {"status", "transport", "timeout"}

\* a generator that takes up the page counter where the last one stopped
FirstPageResumed(prev) == IF prev = 0 THEN 1 ELSE prev

\* `page = 1`, the first statement of extract_trials; prev is the counter of
\* the invocation before (0 when there was none)
FirstPage(prev) == 1

\* a new generator object: its body runs as far as `page = 1`; every local
\* variable and every record of the invocation is fresh
Entered(prev) ==
    /\ e_pc' = "fetch_page"
    /\ page' = FirstPage(prev)
    /\ p_att' = 0
    /\ search_results' = EmptyPage
    /\ tasks' = <<>>
    /\ completedQ' = <<>>
    /\ consumed' = {}
    /\ yielded' = <<>>
    /\ lastReq' = NoReq
    /\ nPageReqs' = 0
    /\ nServed' = 0
    /\ nIds' = 0
    /\ nYielded' = 0
    /\ reqFailed' = FALSE
    /\ detailNotFull' = FALSE
    /\ emptyServed' = FALSE
    /\ keylessServed' = FALSE
    /\ e_raised' = FALSE
    /\ pageCalls' = <<>>

ExtInit ==
    /\ FetchIdle
    /\ StoreIdle
    /\ variant \in {"ctis", "euctr"}
    /\ max_retries \in (IF variant = "euctr" THEN 0..ExtRetriesBound ELSE {0})
    /\ since \in {None} \cup Dates
    /\ invocation = 1
    /\ e_pc = "fetch_page"
    /\ page = FirstPage(0)
    /\ p_att = 0
    /\ search_results = EmptyPage
    /\ tasks = <<>>
    /\ completedQ = <<>>
    /\ consumed = {}
    /\ yielded = <<>>
    /\ lastReq = NoReq
    /\ nPageReqs = 0
    /\ nServed = 0
    /\ nIds = 0
    /\ nYielded = 0
    /\ reqFailed = FALSE
    /\ detailNotFull = FALSE
    /\ emptyServed = FALSE
    /\ keylessServed = FALSE
    /\ e_raised = FALSE
    /\ pageCalls = <<>>

\* a search request has been sent and has ended in `outcome`; the source's
\* answer, when there is one, is `content`
Requested(outcome, content) ==
    /\ lastReq' = PageReq(PageQuery(page, since), outcome)
    /\ nPageReqs' = nPageReqs + 1
    /\ reqFailed' = (reqFailed \/ outcome # "ok")
    /\ nServed' = IF outcome = "ok" THEN nServed + 1 ELSE nServed
    /\ nIds' = IF outcome = "ok"
                 THEN nIds + Cardinality(Identifiers(content.items)) ELSE nIds
    /\ emptyServed' = (emptyServed \/ (outcome = "ok" /\ content.items = <<>>))
    /\ keylessServed' = (keylessServed \/ ( /\ outcome = "ok"
                                            /\ content.items # <<>>
                                            /\ Identifiers(content.items) = {} ))

\* search_results is bound to the answer sr, whose identifiers are ids
Bind(sr, ids) ==
    /\ search_results' = sr
    /\ tasks' = NewTasks(ids)
    /\ completedQ' = <<>>
    /\ consumed' = {}
    /\ yielded' = <<>>

\* a loop that stops after the first page whatever the page signals
AfterDetailsNeverNext(sr) ==
    /\ p_att' = 0
    /\ page' = page
    /\ e_pc' = "done"

\* a loop that goes on to the next page whatever the page signals
AfterDetailsAlwaysNext(sr) ==
    /\ p_att' = 0
    /\ page' = page + 1
    /\ e_pc' = "fetch_page"

\* `if not search_results.get(...).get("nextPage")/("has_next_page"): break`
\* else `page += 1`
AfterDetails(sr) ==
    /\ p_att' = 0
    /\ IF sr.next
         THEN /\ page' = page + 1
              /\ e_pc' = "fetch_page"
         ELSE /\ page' = page
              /\ e_pc' = "done"

\* a loop that goes on to the next page instead of ending
BreakGoesOn ==
    /\ p_att' = 0
    /\ page' = page + 1
    /\ e_pc' = "fetch_page"

\* the generator returns: `break`
Break ==
    /\ p_att' = 0
    /\ page' = page
    /\ e_pc' = "done"

\* an exception leaves the generator
Raise ==
    /\ p_att' = 0
    /\ page' = page
    /\ e_pc' = "raised"
    /\ e_raised' = TRUE

\* a loop over the futures that waits for another one after the last
ExhaustedNever(cons, ts) == FALSE

\* a loop over the futures that ends after the first one
ExhaustedAfterFirst(cons, ts) == cons # {}

\* `for future in asyncio.as_completed(tasks)` has handed out every future
Exhausted(cons, ts) == cons = DOMAIN ts

\* a loop that takes the fetch that finished last
LastCompleted(q) == q[Len(q)]

\* `for future in asyncio.as_completed(tasks)`: the next future is the
\* earliest finished fetch not yet handed out
NextCompleted(q) == Head(q)

\* `yield trial_details` of fetch i, when its result r is to be yielded
Yield(i, r) ==
    IF TruthyBody(r)
      THEN /\ yielded' = Append(yielded, i)
           /\ nYielded' = nYielded + 1
      ELSE UNCHANGED <<yielded, nYielded>>

\* a detail fetch finished with result r
Finish(i, r) ==
    /\ tasks' = [tasks EXCEPT ![i].res = r]
    /\ completedQ' = Append(completedQ, i)
    /\ detailNotFull' = (detailNotFull \/ r # "full")

\* ---- CtisExtractor
\* _get_trial_list_page(page) and the loop body down to the dispatch of the
\* detail fetches
CtisGetTrialListPage ==
    /\ variant = "ctis"
    /\ e_pc = "fetch_page"
    /\ \E outcome \in ExtOutcomes, content \in PageContents(page) :
         LET sr == IF outcome = "ok" THEN content ELSE EmptyPage
             ct_numbers == Identifiers(sr.items)
         IN /\ pageCalls' = Append(pageCalls, page)
            /\ Requested(outcome, content)
            /\ Bind(sr, ct_numbers)
            /\ IF outcome # "ok" /\ ~CtisCaught(outcome)
                 THEN Raise
                 ELSE /\ UNCHANGED e_raised
                      /\ IF sr.items = <<>> \/ ct_numbers = {}
                           THEN Break
                           ELSE /\ e_pc' = "details"
                                /\ UNCHANGED <<page, p_att>>
    /\ UNCHANGED <<max_retries, fetchVars, storeVars, variant, since, invocation, nYielded,
                   detailNotFull>>

\* _get_full_trial_details(ct_number) of one dispatched fetch finishes: its
\* future holds the body or the exception
CtisGetFullTrialDetails ==
    /\ variant = "ctis"
    /\ e_pc = "details"
    /\ \E i \in DOMAIN tasks, outcome \in ExtOutcomes, body \in Bodies :
         /\ tasks[i].res = "-"
         /\ Finish(i, IF outcome = "ok" THEN body ELSE outcome)
    /\ UNCHANGED <<max_retries, fetchVars, storeVars, variant, since, invocation,
                   pageCalls, e_pc, page, p_att,
                   search_results, consumed, yielded, lastReq, nPageReqs,
                   nServed, nIds, nYielded, reqFailed, emptyServed,
                   keylessServed, e_raised>>

\* one turn of `for future in asyncio.as_completed(tasks)` and, after the
\* last one, the nextPage test
CtisConsume ==
    /\ variant = "ctis"
    /\ e_pc = "details"
    /\ completedQ # <<>>
    /\ LET i == NextCompleted(completedQ)
           r == tasks[i].res
           last == Exhausted(consumed \cup {i}, tasks)
       IN /\ completedQ' = Tail(completedQ)
          /\ consumed' = consumed \cup {i}
          /\ IF r \notin Bodies /\ ~CtisCaught(r)
               THEN /\ Raise
                    /\ UNCHANGED <<yielded, nYielded>>
               ELSE /\ UNCHANGED e_raised
                    /\ IF r \in Bodies THEN Yield(i, r)
                       ELSE UNCHANGED <<yielded, nYielded>>
                    /\ IF last THEN AfterDetails(search_results)
                       ELSE UNCHANGED <<page, p_att, e_pc>>
    /\ UNCHANGED <<max_retries, fetchVars, storeVars, variant, since, invocation,
                   pageCalls, search_results,
                   tasks, lastReq, nPageReqs, nServed, nIds, reqFailed,
                   detailNotFull, emptyServed, keylessServed>>

\* ---- EuctrExtractor
\* one attempt of _fetch_url(BASE_URL, params) and, when it returns, the
\* loop body down to the dispatch of the detail fetches
EuctrFetchPage ==
    /\ variant = "euctr"
    /\ e_pc = "fetch_page"
    /\ pageCalls' = IF p_att = 0 THEN Append(pageCalls, page) ELSE pageCalls
    /\ IF p_att >= max_retries
         THEN \* range(self.max_retries) is empty: return None, no request
              /\ Break
              /\ Bind(EmptyPage, {})
              /\ UNCHANGED <<lastReq, nPageReqs, nServed, nIds, reqFailed,
                             emptyServed, keylessServed, e_raised>>
         ELSE \E outcome \in ExtOutcomes, content \in PageContents(page) :
                LET step == AttemptStep(p_att, outcome)
                    trial_urls == Identifiers(content.items)
                IN /\ Requested(outcome, content)
                   /\ CASE step = "backoff" ->
                             /\ p_att' = p_att + 1
                             /\ UNCHANGED <<search_results, tasks, completedQ,
                                            consumed, yielded, page, e_pc,
                                            e_raised>>
                        [] step = "return_none" ->
                             /\ Break
                             /\ Bind(EmptyPage, {})
                             /\ UNCHANGED e_raised
                        [] step = "raise" ->
                             /\ Raise
                             /\ Bind(EmptyPage, {})
                        [] OTHER ->
                             /\ Bind(content, trial_urls)
                             /\ UNCHANGED e_raised
                             /\ IF content.items = <<>> THEN Break
                                ELSE IF trial_urls = {} THEN AfterDetails(content)
                                ELSE /\ e_pc' = "details"
                                     /\ UNCHANGED <<page, p_att>>
    /\ UNCHANGED <<max_retries, fetchVars, storeVars, variant, since, invocation, nYielded,
                   detailNotFull>>

\* one attempt of the _fetch_url(url) of one dispatched detail fetch
EuctrFetchDetail ==
    /\ variant = "euctr"
    /\ e_pc = "details"
    /\ \E i \in DOMAIN tasks, outcome \in ExtOutcomes, body \in Bodies :
         LET step == AttemptStep(tasks[i].att, outcome)
         IN /\ tasks[i].res = "-"
            /\ step # "raise"
            /\ IF step = "backoff"
                 THEN /\ tasks' = [tasks EXCEPT ![i].att = @ + 1]
                      /\ UNCHANGED <<completedQ, detailNotFull>>
                 ELSE Finish(i, IF step = "return_json" THEN body ELSE None)
    /\ UNCHANGED <<max_retries, fetchVars, storeVars, variant, since, invocation,
                   pageCalls, e_pc, page, p_att,
                   search_results, consumed, yielded, lastReq, nPageReqs,
                   nServed, nIds, nYielded, reqFailed, emptyServed,
                   keylessServed, e_raised>>

\* one turn of `for future in asyncio.as_completed(tasks)` and, after the
\* last one, the has_next_page test
EuctrConsume ==
    /\ variant = "euctr"
    /\ e_pc = "details"
    /\ completedQ # <<>>
    /\ LET i == NextCompleted(completedQ)
           last == Exhausted(consumed \cup {i}, tasks)
       IN /\ completedQ' = Tail(completedQ)
          /\ consumed' = consumed \cup {i}
          /\ Yield(i, tasks[i].res)
          /\ IF last THEN AfterDetails(search_results)
             ELSE UNCHANGED <<page, p_att, e_pc>>
    /\ UNCHANGED <<max_retries, fetchVars, storeVars, variant, since, invocation,
                   pageCalls, search_results,
                   tasks, lastReq, nPageReqs, nServed, nIds, reqFailed,
                   detailNotFull, emptyServed, keylessServed, e_raised>>

\* extract_trials(...) is called again on the same extractor, after the
\* generator of the call before has ended
Invoke ==
    /\ e_pc \in {"done", "raised"}
    /\ invocation < MaxInvocations
    /\ invocation' = invocation + 1
    /\ since' \in {None} \cup Dates
    /\ Entered(page)
    /\ UNCHANGED <<max_retries, fetchVars, storeVars, variant>>

ExtNext ==
    \/ Invoke
    \/ CtisGetTrialListPage
    \/ CtisGetFullTrialDetails
    \/ CtisConsume
    \/ EuctrFetchPage
    \/ EuctrFetchDetail
    \/ EuctrConsume

SpecExtract == ExtInit /\ [][ExtNext]_vars

\* the steps of a running generator: its own and those of the fetches it has
\* dispatched on the event loop
Running ==
    \/ CtisGetTrialListPage
    \/ CtisGetFullTrialDetails
    \/ CtisConsume
    \/ EuctrFetchPage
    \/ EuctrFetchDetail
    \/ EuctrConsume

\* the event loop runs what is ready and the consumer iterates the generator
\* to its end (`async for record in extractor.extract_trials(...)`)
SpecExtractLive == ExtInit /\ [][ExtNext]_vars /\ WF_vars(Running)

\* ====================================================================
\* PostgresLoader: the sink transaction
\*   loader/postgres.py   `with loader as l:` (__enter__ / __exit__)
\*   loaders/postgres.py  `with loader.get_conn() as conn:`
\* ====================================================================
\* the body of a with performs at most MaxOps loader operations
MaxOps == 2
\* a stream handed to bulk_load_stream holds at most MaxLines lines
MaxLines == 2

\* psycopg.Error: the database rejected a statement or a COPY
DbError == "psycopg.Error"
\* what the caller's own code in the body raises
BodyExceptions == {"ValueError"}

\* a line of a CSV stream: a data line with the target's columns, a data
\* line with one column too many, or the line csv.DictWriter.writeheader()
\* writes
Line(kind, load_id, key, data) ==
    [kind |-> kind, load_id |-> load_id, key |-> key, data |-> data]
GoodLine == Line("row", 0, "k0", "good_row")
BadLine == Line("extra_col", 0, "k0", "bad_row")
InitialRow == [load_id |-> 0, key |-> "k0", data |-> "initial_row"]
\* the streams a caller hands to bulk_load_stream
Streams == UNION {[1..n -> {GoodLine, BadLine}] : n \in 0..MaxLines}

\* the row COPY makes of a line
RowOf(line) == [load_id |-> line.load_id, key |-> line.key, data |-> line.data]

\* a line the target table cannot take: a wrong number of columns, or text
\* that a column's type does not accept
Malformed(line, hdr_ok) ==
    \/ line.kind = "extra_col"
    \/ line.kind = "header" /\ ~hdr_ok

\* a COPY that reports no error
CopyRaisesNever(lines, hdr_ok) == FALSE

\* `with cur.copy(copy_sql) as copy:` raises when the server rejects a line
CopyRaises(lines, hdr_ok) ==
    \E i \in 1..Len(lines) : Malformed(lines[i], hdr_ok)

\* the rows the server has taken from the lines written to it: every
\* well-formed line before the first line it rejects
RECURSIVE CopiedRows(_, _)
CopiedRows(lines, hdr_ok) ==
    IF lines = <<>> \/ (CopyRaises(lines, hdr_ok) /\ Malformed(Head(lines), hdr_ok))
      THEN <<>>
    ELSE IF Malformed(Head(lines), hdr_ok)
      THEN CopiedRows(Tail(lines), hdr_ok)
    ELSE <<RowOf(Head(lines))>> \o CopiedRows(Tail(lines), hdr_ok)

\* COPY <target> FROM STDIN WITH (FORMAT CSV [, DELIMITER ...]) in the
\* transaction whose view is t: `while chunk := data_stream.read(n):
\* copy.write(chunk)` hands every line of the stream to the server
CopyFromStdin(t, lines, hdr_ok) ==
    IF "bronze" \notin t.tables
      THEN [ok |-> FALSE, t |-> t]
      ELSE [ok |-> ~CopyRaises(lines, hdr_ok),
            t  |-> [t EXCEPT !.bronze = @ \o CopiedRows(lines, hdr_ok)]]

\* the statements a caller hands to execute_sql
Statements == {"CREATE TABLE", "INSERT", "SYNTAX ERROR"}

\* cur.execute(sql) in the transaction whose view is t
Execute(t, stmt) ==
    CASE stmt = "CREATE TABLE" ->
           [ok |-> "bronze" \notin t.tables,
            t  |-> [t EXCEPT !.tables = @ \cup {"bronze"}]]
      [] stmt = "INSERT" ->
           IF "bronze" \in t.tables
             THEN [ok |-> TRUE, t |-> [t EXCEPT !.bronze = Append(@, InitialRow)]]
             ELSE [ok |-> FALSE, t |-> t]
      [] OTHER -> [ok |-> FALSE, t |-> t]

\* an exit that commits whatever happened in the body
ExitCommitsAlways(exc_type) == TRUE

\* __exit__: `if exc_type: self.conn.rollback() else: self.conn.commit()`
ExitCommits(exc_type) == exc_type = NoExc

\* a transaction block that commits whatever happened in the body
TransactionCommitsAlways(exc_type) == TRUE

\* get_conn: `with psycopg.connect(...) as conn, conn.transaction(): yield conn`
\* commits when the block is left normally and rolls back when an exception
\* is thrown into it
TransactionCommits(exc_type) == exc_type = NoExc

\* conn.commit(): the COMMIT of a transaction in which a statement failed
\* is answered with a rollback
Commit(d, t, ab) == IF ab THEN d ELSE t
\* conn.rollback()
Rollback(d, t, ab) == d

\* psycopg.connect(...): a connection whose transaction sees the database
Connect ==
    /\ conn' = "open"
    /\ tx' = db
    /\ db0' = db
    /\ aborted' = FALSE
    /\ exc' = NoExc
    /\ s_raised' = NoExc
    /\ tx_end' = "-"
    /\ s_pc' = "body"

\* an exit that closes only after a commit or rollback that returned
ReleasedAfterCall(call_ok) == call_ok

\* __exit__: `try: rollback / commit  finally: cursor.close(); conn.close()`;
\* get_conn: the with of psycopg.connect closes the connection however the
\* transaction block inside it ends
Released(call_ok) == TRUE

\* the end of the with statement: commit or rollback, close the connection,
\* let the body's exception through; a commit or rollback that the server
\* does not answer raises and leaves the database as it was
Leave(commits) ==
    /\ db' = IF commits /\ end_ok THEN Commit(db, tx, aborted)
             ELSE Rollback(db, tx, aborted)
    /\ tx_end' = IF commits THEN "commit" ELSE "rollback"
    /\ conn' = IF Released(end_ok) THEN "closed" ELSE conn
    /\ s_raised' = IF end_ok THEN exc ELSE DbError
    /\ s_pc' = "exited"

\* a loader operation of the body answered with r
Operation(r) ==
    /\ tx' = r.t
    /\ IF r.ok
         THEN UNCHANGED <<aborted, exc, s_pc>>
         ELSE /\ aborted' = TRUE
              /\ exc' = DbError
              /\ s_pc' = "raising"

LogOp(op, stmt, lines, ok) == [op |-> op, stmt |-> stmt, lines |-> lines, ok |-> ok]

\* what the database can hold before the with: nothing, an empty target
\* table, a target table with a row
PriorDbs ==
    {EmptyDb,
     [tables |-> {"bronze"}, bronze |-> <<>>, silver |-> <<>>],
     [tables |-> {"bronze"}, bronze |-> <<InitialRow>>, silver |-> <<>>]}

otherThanSink == <<max_retries, fetchVars, extVars, pipeVars, transformVars,
                   encVars, enrVars, auxVars>>

SinkInit ==
    /\ FetchIdle
    /\ ExtIdle
    /\ PipeIdle
    /\ TransformIdle
    /\ EncIdle
    /\ EnrIdle
    /\ AuxIdle
    /\ max_retries = 0
    /\ impl \in {"loader", "get_conn"}
    /\ s_pc = "out"
    /\ conn = "none"
    /\ db \in PriorDbs
    /\ tx = db
    /\ db0 = db
    /\ aborted = FALSE
    /\ exc = NoExc
    /\ s_raised = NoExc
    /\ tx_end = "-"
    /\ s_log = <<>>
    /\ cursor = "none"
    /\ outside = NoOutside
    /\ end_ok = TRUE

\* PostgresLoader.__enter__
Enter ==
    /\ impl = "loader"
    /\ s_pc = "out"
    /\ Connect
    /\ cursor' = "open"
    /\ UNCHANGED <<impl, end_ok, outside, db, s_log, otherThanSink>>

\* PostgresLoader.get_conn up to its yield
GetConnEnter ==
    /\ impl = "get_conn"
    /\ s_pc = "out"
    /\ Connect
    /\ UNCHANGED <<impl, end_ok, cursor, outside, db, s_log, otherThanSink>>

\* execute_sql(sql) in the body
ExecuteSql ==
    /\ s_pc = "body"
    /\ Len(s_log) < MaxOps
    /\ \E stmt \in Statements :
         LET r == Execute(tx, stmt)
         IN /\ Operation(r)
            /\ s_log' = Append(s_log, LogOp("execute_sql", stmt, <<>>, r.ok))
    /\ UNCHANGED <<impl, end_ok, cursor, outside, conn, db, s_raised, tx_end, db0, otherThanSink>>

\* bulk_load_stream(target_table, data_stream) in the body
BulkLoadStream ==
    /\ s_pc = "body"
    /\ Len(s_log) < MaxOps
    /\ \E lines \in Streams :
         LET r == CopyFromStdin(tx, lines, header_ok)
         IN /\ Operation(r)
            /\ s_log' = Append(s_log, LogOp("bulk_load_stream", "-", lines, r.ok))
    /\ UNCHANGED <<impl, end_ok, cursor, outside, conn, db, s_raised, tx_end, db0, otherThanSink>>

\* `if not self.cursor`: None is falsy, a cursor object is truthy whether
\* open or closed
CursorNotAvailable(cur) == cur = "none"

\* what execute_sql or bulk_load_stream raises when called outside the with:
\* the guard's RuntimeError, or else the closed cursor's own error
RaisedOutside(cur) ==
    IF CursorNotAvailable(cur) THEN "RuntimeError" ELSE DbError

\* a loader operation called before __enter__ or after __exit__; it raises
\* before anything is sent to the database
CalledOutside(op) ==
    /\ s_pc \in {"out", "exited"}
    /\ outside = NoOutside
    /\ outside' = [op |-> op, at |-> s_pc, raised |-> RaisedOutside(cursor)]
    /\ UNCHANGED <<impl, end_ok, cursor, s_pc, conn, db, tx, aborted, exc, s_raised,
                   tx_end, db0, s_log, otherThanSink>>

\* execute_sql(sql) outside the with
ExecuteSqlOutside ==
    /\ impl = "loader"
    /\ CalledOutside("execute_sql")

\* bulk_load_stream(target_table, data_stream) outside the with
BulkLoadStreamOutside ==
    /\ impl = "loader"
    /\ CalledOutside("bulk_load_stream")

\* the caller's own code in the body raises
BodyRaises ==
    /\ s_pc = "body"
    /\ \E e \in BodyExceptions : exc' = e
    /\ s_pc' = "raising"
    /\ UNCHANGED <<impl, end_ok, cursor, outside, conn, db, tx, aborted, s_raised, tx_end, db0, s_log,
                   otherThanSink>>

\* PostgresLoader.__exit__(exc_type, exc_val, exc_tb): the body has ended
\* or has raised
Exit ==
    /\ impl = "loader"
    /\ s_pc \in {"body", "raising"}
    /\ Leave(ExitCommits(exc))
    /\ cursor' = IF Released(end_ok) THEN "closed" ELSE cursor
    /\ UNCHANGED <<impl, end_ok, outside, tx, aborted, exc, db0, s_log, otherThanSink>>

\* PostgresLoader.get_conn after its yield
GetConnExit ==
    /\ impl = "get_conn"
    /\ s_pc \in {"body", "raising"}
    /\ Leave(TransactionCommits(exc))
    /\ UNCHANGED <<impl, end_ok, cursor, outside, tx, aborted, exc, db0, s_log, otherThanSink>>

SinkNext ==
    \/ Enter
    \/ GetConnEnter
    \/ ExecuteSql
    \/ BulkLoadStream
    \/ ExecuteSqlOutside
    \/ BulkLoadStreamOutside
    \/ BodyRaises
    \/ Exit
    \/ GetConnExit

SpecSink == SinkInit /\ [][SinkNext]_vars

\* ---- the same with statements against a server that may fail to answer
\* the commit or rollback of the exit (a lost connection)
ReleaseInit ==
    /\ FetchIdle
    /\ ExtIdle
    /\ PipeIdle
    /\ TransformIdle
    /\ EncIdle
    /\ EnrIdle
    /\ AuxIdle
    /\ max_retries = 0
    /\ impl \in {"loader", "get_conn"}
    /\ s_pc = "out"
    /\ conn = "none"
    /\ db \in PriorDbs
    /\ tx = db
    /\ db0 = db
    /\ aborted = FALSE
    /\ exc = NoExc
    /\ s_raised = NoExc
    /\ tx_end = "-"
    /\ s_log = <<>>
    /\ cursor = "none"
    /\ outside = NoOutside
    /\ end_ok \in BOOLEAN

SpecRelease == ReleaseInit /\ [][SinkNext]_vars

\* ====================================================================
\* arun_pipeline (cli.py) and the Transformer (transformers/euctr.py)
\* ====================================================================
\* arun_pipeline is run at most MaxRuns times against the database
MaxRuns == 2
\* the source holds at most MaxRecords records
MaxRecords == 2

\* natural keys (eudract_number) and record contents
Keys == <<"t1", "t2">>
KeySet == {Keys[i] : i \in 1..Len(Keys)}
Contents == {"a", "b"}
\* a raw record: the detail JSON of one trial
RawRecords == [key : KeySet, data : Contents]
Sources == UNION {[1..n -> RawRecords] : n \in 0..MaxRecords}
NoKey == "-"

\* a Bronze record that does not take over the raw record's content
BronzeLayerRecordBlankData(load_id, rec) ==
    [load_id |-> load_id, key |-> rec.key, data |-> "-"]

\* BronzeLayerRecord(load_id=load_id, ..., data=rec).model_dump()
BronzeLayerRecord(load_id, rec) ==
    [load_id |-> load_id, key |-> rec.key, data |-> rec.data]

\* writer.writeheader(): the field names, as a line of the stream
HeaderLine == Line("header", 0, NoKey, "data")
\* writer.writerow(record)
RowLine(record) == Line("row", record.load_id, record.key, record.data)

\* an encoder that writes the header line whatever it is given
RecordsToCsvStreamHeaderFirst(records) ==
    <<HeaderLine>> \o [i \in 1..Len(records) |-> RowLine(records[i])]

\* _records_to_csv_stream(records): io.BytesIO() for no records, else the
\* header line followed by one line per record
RecordsToCsvStream(records) ==
    IF records = <<>> THEN <<>>
    ELSE <<HeaderLine>> \o [i \in 1..Len(records) |-> RowLine(records[i])]

\* bronze/create_bronze_table.sql
CreateBronzeTable(t) == [t EXCEPT !.tables = @ \cup {"bronze"}]
\* silver/create_silver_tables.sql
CreateSilverTables(t) == [t EXCEPT !.tables = @ \cup {"silver"}]

\* the Bronze rows of natural key k
RowsOf(bronze, k) == {i \in 1..Len(bronze) : bronze[i].key = k}
\* the oldest of them
Oldest(bronze, k) ==
    CHOOSE i \in RowsOf(bronze, k) : \A j \in RowsOf(bronze, k) : i <= j

\* the newest of them: the most recent load, the last row of that load
Newest(bronze, k) ==
    CHOOSE i \in RowsOf(bronze, k) :
        \A j \in RowsOf(bronze, k) :
            \/ bronze[j].load_id < bronze[i].load_id
            \/ bronze[j].load_id = bronze[i].load_id /\ j <= i

SilverRow(row) == [trial_id |-> row.key, data |-> row.data]

\* INSERT without conflict handling
InsertOne(silver, row) == Append(silver, SilverRow(row))

\* INSERT ... ON CONFLICT (trial_id) DO UPDATE
UpsertOne(silver, row) ==
    IF \E j \in 1..Len(silver) : silver[j].trial_id = row.key
      THEN [j \in 1..Len(silver) |->
              IF silver[j].trial_id = row.key THEN SilverRow(row) ELSE silver[j]]
      ELSE Append(silver, SilverRow(row))

RECURSIVE UpsertKeys(_, _, _)
UpsertKeys(ks, bronze, silver) ==
    IF ks = <<>> THEN silver
    ELSE IF RowsOf(bronze, Head(ks)) = {}
      THEN UpsertKeys(Tail(ks), bronze, silver)
    ELSE UpsertKeys(Tail(ks), bronze,
                    UpsertOne(silver, bronze[Newest(bronze, Head(ks))]))

\* silver/upsert_trials.sql: per natural key the newest Bronze row is
\* inserted into Silver or replaces the Silver row of that key; no Silver
\* row is deleted
UpsertTrials(bronze, silver) == UpsertKeys(Keys, bronze, silver)

\* `except Exception as e: logger.error(...); raise`
Reraised(e) == e

Prefix(s, n) == SubSeq(s, 1, n)

otherThanStore == <<max_retries, fetchVars, extVars, encVars, enrVars, auxVars>>

PipeInit ==
    /\ FetchIdle
    /\ ExtIdle
    /\ TransformIdle
    /\ EncIdle
    /\ EnrIdle
    /\ AuxIdle
    /\ max_retries = 0
    /\ impl = "get_conn"
    /\ s_pc = "out"
    /\ conn = "none"
    /\ db = EmptyDb
    /\ tx = EmptyDb
    /\ db0 = EmptyDb
    /\ aborted = FALSE
    /\ exc = NoExc
    /\ s_raised = NoExc
    /\ cursor = "none"
    /\ outside = NoOutside
    /\ end_ok = TRUE
    /\ tx_end = "-"
    /\ s_log = <<>>
    /\ source \in Sources
    /\ header_ok \in BOOLEAN
    /\ p_pc = "idle"
    /\ runs = 0
    /\ raw_records = <<>>
    /\ all_ok_full = TRUE
    /\ loaded = FALSE
    /\ p_raised = NoExc
    /\ load_mode = "-"
    /\ since_date = None
    /\ delta_since = "-"

\* class LoadMode(str, Enum)
LoadModes == {"full", "delta"}
\* the texts given as --since-date: none, the empty text, a date in ISO
\* format, a text that is no date
SinceDateArgs == {None, "", "2024-01-01", "yesterday"}

\* `if since_date`: None and the empty text are falsy
TruthyText(s) == s # None /\ s # ""

\* date.fromisoformat(s): the date, or a ValueError for a text that is no
\* ISO date
FromIsoFormat(s) == IF s \in Dates THEN s ELSE "ValueError"

\* a filter that is applied whatever the load mode
DeltaSinceAnyMode(sd, mode) ==
    IF TruthyText(sd) THEN FromIsoFormat(sd) ELSE None

\* delta_since = (date.fromisoformat(since_date)
\*                if since_date and load_mode == LoadMode.DELTA else None)
DeltaSince(sd, mode) ==
    IF TruthyText(sd) /\ mode = "delta" THEN FromIsoFormat(sd) ELSE None

\* a pipeline that loads whatever was extracted
AfterExtractAlwaysLoad(recs) == "load"

\* `if not raw_records: return`
AfterExtract(recs) == IF recs = <<>> THEN "exit" ELSE "load"

\* a failure after which the body goes on to the transform
FailsAndGoesOn(e) ==
    /\ exc' = e
    /\ p_pc' = "transform"

\* a step of the body failed with e: control leaves the with
Fails(e) ==
    /\ exc' = e
    /\ p_pc' = "exit"

\* arun_pipeline down to `with loader.get_conn() as conn:`
StartRun ==
    /\ p_pc = "idle"
    /\ runs < MaxRuns
    /\ runs' = runs + 1
    /\ raw_records' = <<>>
    /\ loaded' = FALSE
    /\ p_raised' = NoExc
    /\ Connect
    /\ s_log' = <<>>
    /\ p_pc' = "prepare"
    /\ load_mode' \in LoadModes
    /\ since_date' \in SinceDateArgs
    /\ delta_since' = "-"
    /\ UNCHANGED <<impl, end_ok, cursor, outside, db, source, header_ok, all_ok_full,
                   transformVars, otherThanStore>>

\* create_bronze_table and create_silver_tables; either statement can be
\* refused by the database
Prepare ==
    /\ p_pc = "prepare"
    /\ \E outcome \in {"ok", "bronze_fails", "silver_fails"} :
         CASE outcome = "ok" ->
                /\ tx' = CreateSilverTables(CreateBronzeTable(tx))
                /\ s_log' = s_log \o
                     <<LogOp("execute_sql", "create_bronze_table", <<>>, TRUE),
                       LogOp("execute_sql", "create_silver_tables", <<>>, TRUE)>>
                /\ p_pc' = "extract"
                /\ UNCHANGED <<aborted, exc>>
           [] outcome = "bronze_fails" ->
                /\ s_log' = Append(s_log,
                       LogOp("execute_sql", "create_bronze_table", <<>>, FALSE))
                /\ aborted' = TRUE
                /\ Fails(DbError)
                /\ UNCHANGED tx
           [] OTHER ->
                /\ tx' = CreateBronzeTable(tx)
                /\ s_log' = s_log \o
                     <<LogOp("execute_sql", "create_bronze_table", <<>>, TRUE),
                       LogOp("execute_sql", "create_silver_tables", <<>>, FALSE)>>
                /\ aborted' = TRUE
                /\ Fails(DbError)
    /\ UNCHANGED <<impl, end_ok, cursor, outside, s_pc, conn, db, s_raised, tx_end, db0, source,
                   header_ok, runs, raw_records, all_ok_full, loaded, p_raised,
                   argVars, transformVars, otherThanStore>>

\* delta_since = ...; raw_records = [rec async for rec in
\* extractor.extract_trials(since_date=delta_since)] and `if not
\* raw_records: return`; date.fromisoformat raises for a text that is no
\* date, and a response that is not JSON raises out of the extractor
Extract ==
    /\ p_pc = "extract"
    /\ LET d == DeltaSince(since_date, load_mode)
       IN IF d = "ValueError"
            THEN /\ Fails("ValueError")
                 /\ UNCHANGED <<raw_records, delta_since>>
            ELSE /\ delta_since' = d
                 /\ \/ /\ \E n \in 0..Len(source) :
                             raw_records' = Prefix(source, n)
                       /\ p_pc' = AfterExtract(raw_records')
                       /\ UNCHANGED exc
                    \/ /\ Fails("ValueError")
                       /\ UNCHANGED raw_records
    /\ UNCHANGED <<impl, end_ok, cursor, outside, s_pc, conn, db, tx, aborted, s_raised, tx_end, db0,
                   s_log, source, header_ok, runs, all_ok_full, loaded,
                   p_raised, load_mode, since_date, transformVars,
                   otherThanStore>>

\* bronze_records, csv_stream and loader.bulk_load_stream(...)
Load ==
    /\ p_pc = "load"
    /\ LET bronze_records == [i \in 1..Len(raw_records) |->
                                BronzeLayerRecord(runs, raw_records[i])]
           csv_stream == RecordsToCsvStream(bronze_records)
           r == CopyFromStdin(tx, csv_stream, header_ok)
       IN /\ tx' = r.t
          /\ loaded' = r.ok
          /\ s_log' = Append(s_log, LogOp("bulk_load_stream", "-", csv_stream, r.ok))
          /\ IF r.ok
               THEN /\ p_pc' = "transform"
                    /\ UNCHANGED <<aborted, exc>>
               ELSE /\ aborted' = TRUE
                    /\ Fails(DbError)
    /\ UNCHANGED <<impl, end_ok, cursor, outside, s_pc, conn, db, s_raised, tx_end, db0, source,
                   header_ok, runs, raw_records, all_ok_full, p_raised,
                   argVars, transformVars, otherThanStore>>

\* transformer.transform_bronze_to_silver(...); the statement can be
\* refused by the database
Transform ==
    /\ p_pc = "transform"
    /\ \/ /\ tx' = [tx EXCEPT !.silver = UpsertTrials(tx.bronze, tx.silver)]
          /\ s_log' = Append(s_log, LogOp("execute_sql", "upsert_trials", <<>>, TRUE))
          /\ p_pc' = "exit"
          /\ UNCHANGED <<aborted, exc>>
       \/ /\ aborted' = TRUE
          /\ s_log' = Append(s_log, LogOp("execute_sql", "upsert_trials", <<>>, FALSE))
          /\ Fails(DbError)
          /\ UNCHANGED tx
    /\ UNCHANGED <<impl, end_ok, cursor, outside, s_pc, conn, db, s_raised, tx_end, db0, source,
                   header_ok, runs, raw_records, all_ok_full, loaded, p_raised,
                   argVars, transformVars, otherThanStore>>

\* the with is left (get_conn commits or rolls back) and the except/finally
\* of arun_pipeline run
EndRun ==
    /\ p_pc = "exit"
    /\ Leave(TransactionCommits(exc))
    /\ p_raised' = Reraised(exc)
    /\ all_ok_full' = (all_ok_full /\ exc = NoExc /\ raw_records = source)
    /\ p_pc' = "idle"
    /\ UNCHANGED <<impl, end_ok, cursor, outside, tx, aborted, exc, db0, s_log, source, header_ok, runs,
                   raw_records, loaded, argVars, transformVars, otherThanStore>>

PipeNext ==
    \/ StartRun
    \/ Prepare
    \/ Extract
    \/ Load
    \/ Transform
    \/ EndRun

SpecPipeline == PipeInit /\ [][PipeNext]_vars

\* ---- transform_bronze_to_silver executed repeatedly on one Bronze content
\* the Bronze table holds at most MaxBronze rows
MaxBronze == 2
\* the transform is executed at most MaxTransforms times
MaxTransforms == 3

BronzeRows == [load_id : 1..MaxRuns, key : KeySet \cup {NoKey}, data : Contents]
BronzeContents == UNION {[1..n -> BronzeRows] : n \in 0..MaxBronze}
\* what Silver can hold before the first execution: nothing, or a row
SilverContents ==
    {<<>>} \cup {<<[trial_id |-> k, data |-> d]>> : k \in KeySet, d \in Contents}

TransformInit ==
    /\ FetchIdle
    /\ ExtIdle
    /\ PipeIdle
    /\ EncIdle
    /\ EnrIdle
    /\ AuxIdle
    /\ max_retries = 0
    /\ impl = "get_conn"
    /\ s_pc = "body"
    /\ conn = "open"
    /\ db = EmptyDb
    /\ db0 = EmptyDb
    /\ \E D \in BronzeContents, S \in SilverContents :
         tx = [tables |-> {"bronze", "silver"}, bronze |-> D, silver |-> S]
    /\ aborted = FALSE
    /\ exc = NoExc
    /\ s_raised = NoExc
    /\ cursor = "none"
    /\ outside = NoOutside
    /\ end_ok = TRUE
    /\ tx_end = "-"
    /\ s_log = <<>>
    /\ t_runs = 0
    /\ t_first = <<>>

\* Transformer.transform_bronze_to_silver(conn, ...)
TransformBronzeToSilver ==
    /\ t_runs < MaxTransforms
    /\ tx' = [tx EXCEPT !.silver = UpsertTrials(tx.bronze, tx.silver)]
    /\ t_runs' = t_runs + 1
    /\ t_first' = IF t_runs = 0 THEN tx'.silver ELSE t_first
    /\ UNCHANGED <<impl, end_ok, cursor, outside, s_pc, conn, db, aborted, exc, s_raised, tx_end, db0,
                   s_log, pipeVars, otherThanStore>>

TransformNext == TransformBronzeToSilver

SpecTransform == TransformInit /\ [][TransformNext]_vars

\* ---- _records_to_csv_stream, one call on any list of Bronze records
\* the lists of model_dump()ed BronzeLayerRecords a caller can build
EncInputs ==
    UNION {[1..n -> {BronzeLayerRecord(l, r) : l \in 1..MaxRuns, r \in RawRecords}] :
             n \in 0..MaxRecords}

EncInit ==
    /\ FetchIdle
    /\ ExtIdle
    /\ SinkIdle
    /\ PipeIdle
    /\ TransformIdle
    /\ EnrIdle
    /\ AuxIdle
    /\ max_retries = 0
    /\ enc_in \in EncInputs
    /\ enc_pc = "ready"
    /\ enc_out = <<>>

\* csv_stream = _records_to_csv_stream(bronze_records)
Encode ==
    /\ enc_pc = "ready"
    /\ enc_out' = RecordsToCsvStream(enc_in)
    /\ enc_pc' = "done"
    /\ UNCHANGED <<enc_in, max_retries, fetchVars, extVars, sinkVars, pipeVars,
                   transformVars, enrVars, auxVars>>

EncNext == Encode

SpecEncode == EncInit /\ [][EncNext]_vars

\* ---- the source_url of the Bronze records: what the extractor fetched,
\* what it yields, what the pipeline makes of it
TrialIds == {"t1", "t2"}
\* the URL of a detail record: trial["url"] of the search result (EUCTR),
\* RETRIEVE_URL_TEMPLATE.format(ct_number=...) (CTIS)
DetailUrl(v, id) == <<v, id>>
\* a key the body does not have
NoField == <<"absent">>
\* rec.get(key, default)
GetField(value, default) == IF value = NoField THEN default ELSE value
\* the bodies a detail request can be answered with: the server decides
\* whether they name their own URL or number, and which
DetailBodies(v) ==
    IF v = "euctr"
      THEN [url : {NoField} \cup {DetailUrl("euctr", id) : id \in TrialIds},
            ctNumber : {NoField}]
      ELSE [url : {NoField},
            ctNumber : {NoField} \cup {<<id>> : id \in TrialIds}]
Fetches(v) ==
    UNION {[1..n -> [from : {DetailUrl(v, id) : id \in TrialIds},
                     body : DetailBodies(v)]] : n \in 0..MaxRecords}

\* source_url=rec.get("url", "") (cli.py);
\* source_url = extractor.RETRIEVE_URL_TEMPLATE.format(
\*     ct_number=trial_data.get("ctNumber", "")) (example.py)
SourceUrl(v, rec) ==
    IF v = "euctr"
      THEN GetField(rec.url, <<>>)
      ELSE <<"ctis">> \o GetField(rec.ctNumber, <<"">>)

EnrInit ==
    /\ FetchIdle
    /\ ExtIdle
    /\ SinkIdle
    /\ PipeIdle
    /\ TransformIdle
    /\ EncIdle
    /\ AuxIdle
    /\ max_retries = 0
    /\ en_variant \in {"euctr", "ctis"}
    /\ en_fetched \in Fetches(en_variant)
    /\ en_pc = "fetched"
    /\ en_raw = <<>>
    /\ en_bronze = <<>>

\* extract_trials: `yield trial_details`, the body alone
YieldDetails ==
    /\ en_pc = "fetched"
    /\ en_raw' = [i \in 1..Len(en_fetched) |-> en_fetched[i].body]
    /\ en_pc' = "extracted"
    /\ UNCHANGED <<en_variant, en_fetched, en_bronze, max_retries, fetchVars,
                   extVars, sinkVars, pipeVars, transformVars, encVars, auxVars>>

\* bronze_records = [BronzeLayerRecord(..., source_url=..., data=rec) ...]
Enrich ==
    /\ en_pc = "extracted"
    /\ en_bronze' = [i \in 1..Len(en_raw) |->
                       [source_url |-> SourceUrl(en_variant, en_raw[i]),
                        data |-> en_raw[i]]]
    /\ en_pc' = "enriched"
    /\ UNCHANGED <<en_variant, en_fetched, en_raw, max_retries, fetchVars,
                   extVars, sinkVars, pipeVars, transformVars, encVars, auxVars>>

EnrNext ==
    \/ YieldDetails
    \/ Enrich

SpecEnrich == EnrInit /\ [][EnrNext]_vars

\* ---- example.py main: one run of the CTIS pipeline
\* the Bronze table before the run: absent, empty, holding rows with a
\* decisionDate
PriorKinds == {"no_table", "empty_table", "dated_rows"}

\* get_last_decision_date's query on its own connection: it sees what is
\* committed; a missing table raises, which is caught and answered with None
LastDecisionDate(prior) ==
    IF prior = "dated_rows" THEN "2024-01-01" ELSE None

ExOp(op, c) == [op |-> op, conn |-> c]

ExInit ==
    /\ FetchIdle
    /\ ExtIdle
    /\ SinkIdle
    /\ PipeIdle
    /\ TransformIdle
    /\ EncIdle
    /\ EnrIdle
    /\ PsIdle
    /\ ChIdle
    /\ RateIdle
    /\ DlIdle
    /\ max_retries = 0
    /\ x_mode \in {"full", "delta"}
    /\ x_prior \in PriorKinds
    /\ x_source \in 0..MaxRecords
    /\ x_pc = "start"
    /\ x_opened = 0
    /\ x_open = {}
    /\ x_log = <<>>
    /\ x_from = "-"
    /\ x_exc = NoExc

otherThanEx == <<max_retries, fetchVars, extVars, sinkVars, pipeVars,
                 transformVars, encVars, enrVars, psVars, chVars, rateVars,
                 dlVars>>

\* with PostgresLoader(settings.db_connection_string) as loader:
ExEnter ==
    /\ x_pc = "start"
    /\ x_opened' = x_opened + 1
    /\ x_open' = {x_opened + 1}
    /\ x_pc' = "prepare"
    /\ UNCHANGED <<x_mode, x_prior, x_source, x_log, x_from, x_exc, otherThanEx>>

\* loader.execute_sql(create_schema_sql); loader.execute_sql(create_table_sql)
ExPrepare ==
    /\ x_pc = "prepare"
    /\ \E outcome \in {"ok", "schema_fails", "table_fails"} :
         /\ x_log' = IF outcome = "schema_fails"
                       THEN x_log \o <<ExOp("create_schema", 1)>>
                       ELSE x_log \o <<ExOp("create_schema", 1),
                                       ExOp("create_table", 1)>>
         /\ x_exc' = IF outcome = "ok" THEN NoExc ELSE DbError
         /\ x_pc' = IF outcome # "ok" THEN "exit"
                    ELSE IF x_mode = "delta" THEN "lookup" ELSE "extract"
    /\ UNCHANGED <<x_mode, x_prior, x_source, x_opened, x_open, x_from,
                   otherThanEx>>

\* from_decision_date = get_last_decision_date(...): a new PostgresLoader,
\* entered, queried and left inside the call; `return` when it answers None
ExGetLastDecisionDate ==
    /\ x_pc = "lookup"
    /\ LET c == x_opened + 1
           d == LastDecisionDate(x_prior)
       IN /\ x_opened' = c
          /\ x_log' = Append(x_log, ExOp("select_last_date", c))
          /\ x_from' = d
          /\ x_pc' = IF d = None THEN "exit" ELSE "extract"
    /\ UNCHANGED <<x_mode, x_prior, x_source, x_open, x_exc, otherThanEx>>

\* writer = csv.writer(string_buffer, delimiter='\\t', quoting=csv.QUOTE_NONE,
\* escapechar='\\\\'): the two literals are strings of two characters
\* (backslash t, backslash backslash), and csv.writer takes a delimiter and
\* an escapechar of one character only: it raises TypeError. The loop over
\* extract_trials and the bulk load that follow are not reached.
ExCsvWriter ==
    /\ x_pc = "extract"
    /\ x_exc' = "TypeError"
    /\ x_pc' = "exit"
    /\ UNCHANGED <<x_mode, x_prior, x_source, x_opened, x_open, x_log, x_from,
                   otherThanEx>>

\* the with is left: PostgresLoader.__exit__
ExExit ==
    /\ x_pc = "exit"
    /\ x_log' = Append(x_log, ExOp(IF ExitCommits(x_exc) THEN "commit"
                                   ELSE "rollback", 1))
    /\ x_open' = {}
    /\ x_pc' = "done"
    /\ UNCHANGED <<x_mode, x_prior, x_source, x_opened, x_from, x_exc,
                   otherThanEx>>

ExNext ==
    \/ ExEnter
    \/ ExPrepare
    \/ ExGetLastDecisionDate
    \/ ExCsvWriter
    \/ ExExit

SpecExample == ExInit /\ [][ExNext]_vars

\* ---- PostgresLoader.prepare_schema(table_name, schema_name, conn)
MaxCalls == 2
SchemaNames == {"s1", "s2"}
TableNames == {"t1", "t2"}
\* what the database can hold before the first call: some of the
\* namespaces, and some tables in them
PriorObjects ==
    {o \in [schemas : SUBSET SchemaNames,
            tables : SUBSET (SchemaNames \X TableNames)] :
        \A t \in o.tables : t[1] \in o.schemas}

\* CREATE SCHEMA IF NOT EXISTS {schema}
CreateSchemaIfNotExists(o, schema_name) ==
    [o EXCEPT !.schemas = @ \cup {schema_name}]

PsInit ==
    /\ FetchIdle
    /\ ExtIdle
    /\ SinkIdle
    /\ PipeIdle
    /\ TransformIdle
    /\ EncIdle
    /\ EnrIdle
    /\ ExIdle
    /\ ChIdle
    /\ RateIdle
    /\ DlIdle
    /\ max_retries = 0
    /\ ps_db \in PriorObjects
    /\ ps_before = ps_db
    /\ ps_calls = <<>>

\* prepare_schema(table_name, schema_name, conn): one statement, the
\* CREATE SCHEMA; the table is not touched
PrepareSchema ==
    /\ Len(ps_calls) < MaxCalls
    /\ \E schema_name \in SchemaNames, table_name \in TableNames :
         /\ ps_db' = CreateSchemaIfNotExists(ps_db, schema_name)
         /\ ps_calls' = Append(ps_calls, [schema_name |-> schema_name,
                                          table_name |-> table_name])
    /\ ps_before' = ps_db
    /\ UNCHANGED <<max_retries, fetchVars, extVars, sinkVars, pipeVars,
                   transformVars, encVars, enrVars, exVars, chVars, rateVars,
                   dlVars>>

PsNext == PrepareSchema

SpecPrepare == PsInit /\ [][PsNext]_vars

\* ---- the copy loop of bulk_load_stream
\* data_stream.read(8192) (loader/postgres.py)
ChunkSize8K == 8192
\* data_stream.read(1024 * 1024) (loaders/postgres.py)
ChunkSize1M == 1048576
ChunkSize(i) == IF i = "loader" THEN ChunkSize8K ELSE ChunkSize1M
\* the stream lengths tried: empty, below, at and above one and two chunks
StreamLengths ==
    {0, 1, ChunkSize8K - 1, ChunkSize8K, ChunkSize8K + 1, 2 * ChunkSize8K + 1,
     ChunkSize1M - 1, ChunkSize1M, ChunkSize1M + 1, 2 * ChunkSize1M + 1}

\* a read without a size: the rest of the stream at once
ReadAll(remaining, n) == remaining

\* len(data_stream.read(n)) with `remaining` bytes left: n bytes while there
\* are as many, the rest otherwise, none at the end
ReadLen(remaining, n) == IF remaining < n THEN remaining ELSE n

ChInit ==
    /\ FetchIdle
    /\ ExtIdle
    /\ SinkIdle
    /\ PipeIdle
    /\ TransformIdle
    /\ EncIdle
    /\ EnrIdle
    /\ ExIdle
    /\ PsIdle
    /\ RateIdle
    /\ DlIdle
    /\ max_retries = 0
    /\ ch_impl \in {"loader", "loaders"}
    /\ ch_len \in StreamLengths
    /\ ch_pos = 0
    /\ ch_writes = <<>>
    /\ ch_pc = "read"

\* one turn of `while chunk := data_stream.read(n): copy.write(chunk)`
ReadWrite ==
    /\ ch_pc = "read"
    /\ LET k == ReadLen(ch_len - ch_pos, ChunkSize(ch_impl))
       IN IF k = 0
            THEN /\ ch_pc' = "done"
                 /\ UNCHANGED <<ch_pos, ch_writes>>
            ELSE /\ ch_writes' = Append(ch_writes, [from |-> ch_pos, len |-> k])
                 /\ ch_pos' = ch_pos + k
                 /\ UNCHANGED ch_pc
    /\ UNCHANGED <<ch_impl, ch_len, max_retries, fetchVars, extVars, sinkVars,
                   pipeVars, transformVars, encVars, enrVars, exVars, psVars,
                   rateVars, dlVars>>

ChNext == ReadWrite

SpecChunk == ChInit /\ [][ChNext]_vars

\* ---- the requests of one EuctrExtractor in time: the detail fetches of
\* one page, dispatched together after the page was read. Times are in
\* tenths of a second, as the backoff durations are.
\* rate_limit_delay: float = 0.1
RateLimitDelay == 1
\* how late after its request the page's answer can arrive
Latencies == {0, 1}
\* how late after the end of its sleep a task can be resumed
Lateness == {0, 1}

Later(a, b) == IF a < b THEN b ELSE a

RateInit ==
    /\ FetchIdle
    /\ ExtIdle
    /\ SinkIdle
    /\ PipeIdle
    /\ TransformIdle
    /\ EncIdle
    /\ EnrIdle
    /\ ExIdle
    /\ PsIdle
    /\ ChIdle
    /\ DlIdle
    /\ max_retries \in 1..ExtRetriesBound
    /\ r_reqs = <<0>>
    /\ r_now \in Latencies
    /\ \E n \in 1..MaxItems :
         r_tasks = [i \in 1..n |-> [att |-> 0, wake |-> r_now + RateLimitDelay,
                                    pc |-> "sleep"]]

\* one attempt of the _fetch_url of detail fetch i: its sleep is over, the
\* request is issued and answered; a failure that is not the last one is
\* followed by the backoff sleep and the next attempt's politeness sleep
RateFetchAttempt ==
    /\ \E i \in DOMAIN r_tasks, late \in Lateness, outcome \in ExtOutcomes,
          jitter \in Jitters :
         LET t == Later(r_now, r_tasks[i].wake) + late
             step == AttemptStep(r_tasks[i].att, outcome)
         IN /\ r_tasks[i].pc = "sleep"
            /\ r_now' = t
            /\ r_reqs' = Append(r_reqs, t)
            /\ r_tasks' =
                 [r_tasks EXCEPT ![i] =
                    IF step = "backoff"
                      THEN [att |-> @.att + 1,
                            wake |-> t + BackoffTime(@.att, jitter) + RateLimitDelay,
                            pc |-> "sleep"]
                      ELSE [@ EXCEPT !.pc = "done"]]
    /\ UNCHANGED <<max_retries, fetchVars, extVars, sinkVars, pipeVars,
                   transformVars, encVars, enrVars, exVars, psVars, chVars,
                   dlVars>>

RateNext == RateFetchAttempt

SpecRate == RateInit /\ [][RateNext]_vars

\* ====================================================================
\* Fetcher.download_dataset (py_load_eurostat/fetcher.py): calls made one
\* after the other on one Fetcher, whose cache directory keeps the files
\* of the calls before
\* ====================================================================
\* download_dataset is called at most MaxDownloads times
MaxDownloads == 2
\* a download is written in at most MaxChunks chunks
MaxChunks == 2
\* dataset codes
Codes == {"nama_10_gdp", "prc_hicp_manr"}
\* the state of settings.cache_dir / f"{dataset_code}.tsv.gz"
Absent == "absent"

\* a handler that leaves the file where it is
CleanedUpNever(cache, code) == cache

\* `if file_path.exists(): os.remove(file_path)`
CleanedUp(cache, code) == [cache EXCEPT ![code] = Absent]

\* open(file_path, "wb"): the file is there and empty, whatever it held
Opened(cache, code) == [cache EXCEPT ![code] = "partial"]

DlReq(url, out) == [url |-> url, out |-> out]

\* the last request of the call has ended in `out`
Ended(reqs, out) == [reqs EXCEPT ![Len(reqs)].out = out]

\* Fetcher(settings): the cache directory is made; nothing is in it
DlInit ==
    /\ FetchIdle
    /\ ExtIdle
    /\ SinkIdle
    /\ PipeIdle
    /\ TransformIdle
    /\ EncIdle
    /\ EnrIdle
    /\ ExIdle
    /\ PsIdle
    /\ ChIdle
    /\ RateIdle
    /\ max_retries = 0
    /\ dl_toc \in SUBSET Codes
    /\ dl_calls = 0
    /\ dl_code = "-"
    /\ dl_pc = "idle"
    /\ dl_cache = [c \in Codes |-> Absent]
    /\ dl_cache0 = [c \in Codes |-> Absent]
    /\ dl_reqs = <<>>
    /\ dl_chunks = 0
    /\ dl_result = "-"
    /\ dl_raised = FALSE

otherThanDl == <<max_retries, fetchVars, extVars, sinkVars, pipeVars,
                 transformVars, encVars, enrVars, exVars, psVars, chVars,
                 rateVars>>

\* the except branch of download_dataset
DownloadFailed ==
    /\ dl_cache' = CleanedUp(dl_cache, dl_code)
    /\ dl_result' = None
    /\ dl_pc' = "done"

\* download_dataset(dataset_code) down to the try: the table of contents is
\* requested (get_toc_content answers None for a failed request, and
\* list_available_datasets [] then) and the code is looked up in it
DownloadDataset ==
    /\ dl_pc \in {"idle", "done"}
    /\ dl_calls < MaxDownloads
    /\ dl_calls' = dl_calls + 1
    /\ dl_cache0' = dl_cache
    /\ dl_chunks' = 0
    /\ dl_raised' = FALSE
    /\ \E dataset_code \in Codes, outcome \in ExtOutcomes :
         LET datasets == IF outcome = "ok" THEN dl_toc ELSE {}
         IN /\ dl_code' = dataset_code
            /\ dl_reqs' = <<DlReq("toc", outcome)>>
            /\ IF datasets = {} \/ dataset_code \notin datasets
                 THEN /\ dl_result' = None
                      /\ dl_pc' = "done"
                 ELSE /\ dl_result' = "-"
                      /\ dl_pc' = "stream"
    /\ UNCHANGED <<dl_toc, dl_cache, otherThanDl>>

\* with self.client.stream("GET", download_url) as response:
\* response.raise_for_status(); open(file_path, "wb")
StreamGet ==
    /\ dl_pc = "stream"
    /\ \E outcome \in ExtOutcomes :
         IF outcome = "ok"
           THEN /\ dl_reqs' = Append(dl_reqs, DlReq(dl_code, "streaming"))
                /\ dl_cache' = Opened(dl_cache, dl_code)
                /\ dl_pc' = "write"
                /\ UNCHANGED dl_result
           ELSE /\ dl_reqs' = Append(dl_reqs, DlReq(dl_code, outcome))
                /\ DownloadFailed
    /\ UNCHANGED <<dl_toc, dl_calls, dl_code, dl_cache0, dl_chunks, dl_raised,
                   otherThanDl>>

\* for chunk in response.iter_bytes(): f.write(chunk), one turn: a chunk is
\* written, the body ends (`return file_path`), the connection breaks, or
\* the write fails with an OSError, which no handler catches
IterBytes ==
    /\ dl_pc = "write"
    /\ \/ /\ dl_chunks < MaxChunks
          /\ dl_chunks' = dl_chunks + 1
          /\ UNCHANGED <<dl_cache, dl_reqs, dl_result, dl_pc, dl_raised>>
       \/ /\ dl_reqs' = Ended(dl_reqs, "ok")
          /\ dl_cache' = [dl_cache EXCEPT ![dl_code] = "complete"]
          /\ dl_result' = dl_code
          /\ dl_pc' = "done"
          /\ UNCHANGED <<dl_chunks, dl_raised>>
       \/ /\ dl_reqs' = Ended(dl_reqs, "transport")
          /\ DownloadFailed
          /\ UNCHANGED <<dl_chunks, dl_raised>>
       \/ /\ dl_raised' = TRUE
          /\ dl_pc' = "done"
          /\ UNCHANGED <<dl_cache, dl_reqs, dl_result, dl_chunks>>
    /\ UNCHANGED <<dl_toc, dl_calls, dl_code, dl_cache0, otherThanDl>>

DlNext ==
    \/ DownloadDataset
    \/ StreamGet
    \/ IterBytes

SpecDownload == DlInit /\ [][DlNext]_vars

\* ====================================================================
\* Properties of _fetch_url (SpecFetch)
\* ====================================================================
Gets == SelectSeq(f_log, LAMBDA e : e.ev = "get")
Backoffs == SelectSeq(f_log, LAMBDA e : e.ev = "backoff")
AllGetsFailed == \A i \in 1..Len(Gets) : Gets[i].out \in HttpFailures
\* the first Len(Gets)-1 attempts failed and the last one succeeded
FailedThenSucceeded ==
    /\ Len(Gets) >= 1
    /\ Gets[Len(Gets)].out = "ok"
    /\ \A i \in 1..(Len(Gets) - 1) : Gets[i].out \in HttpFailures

\* C1: when every attempt of a _fetch_url call fails with a non-2xx status, a
\* transport error or a timeout, no exception leaves the call, and the call
\* returns None once max_retries attempts have been made, not before.
C1_ExhaustionReturnsNone ==
    AllGetsFailed =>
        /\ ~f_raised
        /\ f_pc = "done" => (f_result = None /\ Len(Gets) = max_retries)
        /\ Len(Gets) <= max_retries

\* a call with max_retries >= 2 that ended after transport and timeout failures
C1_Witness ==
    /\ f_pc = "done"
    /\ max_retries >= 2
    /\ AllGetsFailed
    /\ Len(Gets) = max_retries
    /\ \E i \in 1..Len(Gets) : Gets[i].out = "transport"
    /\ \E i \in 1..Len(Gets) : Gets[i].out = "timeout"

\* C2: while the attempts made so far have all failed and fewer than
\* max_retries were made, the call goes on (it has not returned); when attempt
\* j succeeds after j-1 failures it returns that attempt's payload, and each
\* of the j-1 failed attempts is followed by one backoff wait of its index.
C2_RetryThenSuccess ==
    /\ (AllGetsFailed /\ Len(Gets) < max_retries) => f_pc # "done"
    /\ FailedThenSucceeded =>
         /\ f_pc = "done"
         /\ ~f_raised
         /\ f_result = Gets[Len(Gets)].pay
         /\ f_result \in Payloads
         /\ Len(Backoffs) = Len(Gets) - 1
         /\ \A i \in 1..Len(f_log) :
               (f_log[i].ev = "get" /\ f_log[i].out # "ok") =>
                   /\ i < Len(f_log)
                   /\ f_log[i + 1].ev = "backoff"
                   /\ f_log[i + 1].k = f_log[i].k

\* two failures, then a success at the third attempt with max_retries = 3
C2_Witness ==
    /\ max_retries = 3
    /\ FailedThenSucceeded
    /\ Len(Gets) = 3
    /\ f_result = "p2"
    /\ Len(Backoffs) = 2

\* C29: every request of a call is directly preceded, in the call's own
\* sequence of waits and requests, by the politeness wait of the same
\* attempt; a backoff wait is never directly followed by a request.
C29_RateLimitPerAttempt ==
    \A k \in 1..Len(f_log) :
        f_log[k].ev = "get" =>
            /\ k > 1
            /\ f_log[k-1].ev = "rate"
            /\ f_log[k-1].k = f_log[k].k

\* a retry: backoff wait, politeness wait, request
C29_Witness ==
    /\ Len(f_log) >= 5
    /\ f_log[3].ev = "backoff"
    /\ f_log[4].ev = "rate" /\ f_log[4].k = 1
    /\ f_log[5].ev = "get" /\ f_log[5].k = 1

\* the backoff waits of the call, as indices of its log
\* C35: one _fetch_url call sends at most max_retries requests, the request
\* that gets a 2xx response is the last one of the call, and a call with
\* max_retries = 0 returns None without any request (and without any wait).
C35_AtMostMaxRetries ==
    /\ Len(Gets) <= max_retries
    /\ \A i \in 1..Len(Gets) :
          Gets[i].out \notin HttpFailures => i = Len(Gets)
    /\ max_retries = 0 =>
          /\ f_log = <<>>
          /\ ~f_raised
          /\ f_pc = "done" => f_result = None

\* a call that has used the last of its max_retries requests, which was
\* the successful one
C35_Witness ==
    /\ max_retries = MaxRetriesBound
    /\ f_pc = "done"
    /\ Len(Gets) = max_retries
    /\ Gets[Len(Gets)].out = "ok"
    /\ f_result \in Payloads

\* C36: a call whose max_retries attempts (one at least) have all failed
\* has made max_retries - 1 backoff waits, one after each failure but the
\* last, and has returned None right after the last failed request.
C36_NoBackoffAfterLast ==
    (max_retries >= 1 /\ AllGetsFailed /\ Len(Gets) = max_retries) =>
        /\ Len(Backoffs) = max_retries - 1
        /\ f_log[Len(f_log)].ev = "get"
        /\ f_pc = "done"
        /\ f_result = None

\* a call that gave up after three non-2xx answers
C36_Witness ==
    /\ max_retries = 3
    /\ f_pc = "done"
    /\ Len(Gets) = 3
    /\ \A i \in 1..Len(Gets) : Gets[i].out = "status"
    /\ Len(Backoffs) = 2
    /\ f_result = None

BackoffWaits == {k \in 1..Len(f_log) : f_log[k].ev = "backoff"}

\* C30: the backoff wait after failed attempt k lasts at least 2^k seconds
\* and less than 2^k + 1 seconds (durations in tenths of a second), and of
\* two backoff waits of one call the later one is the longer.
C30_BackoffDurations ==
    /\ \A i \in BackoffWaits :
         /\ 10 * (2 ^ f_log[i].k) <= f_log[i].dur
         /\ f_log[i].dur < 10 * (2 ^ f_log[i].k) + 10
    /\ \A i, j \in BackoffWaits :
         i < j => ( /\ f_log[i].k < f_log[j].k
                    /\ f_log[i].dur < f_log[j].dur )

\* a first backoff with the largest jitter followed by a second one with
\* the smallest
C30_Witness ==
    /\ Cardinality(BackoffWaits) = 2
    /\ \E i, j \in BackoffWaits :
         /\ f_log[i].k = 0 /\ f_log[i].dur = 19
         /\ f_log[j].k = 1 /\ f_log[j].dur = 20

\* ====================================================================
\* Properties of extract_trials (SpecExtract)
\* ====================================================================
YieldedSet == {yielded[k] : k \in 1..Len(yielded)}
ResultIn(res) == {i \in DOMAIN tasks : tasks[i].res \in res}
\* the page the tasks belong to has been dealt with
PageFinished == e_pc \in {"fetch_page", "done"}

\* the generator yielded one record per identifier of the pages served, made
\* one request per page and did not stop before a page without a next signal
PaginationComplete ==
    /\ ~search_results.next
    /\ nYielded = nIds
    /\ YieldedSet = Identifiers(search_results.items)
    /\ Len(yielded) = Cardinality(YieldedSet)
    /\ nPageReqs = nServed
    /\ lastReq.page = nServed
    /\ ~e_raised

\* C3 as stated: for a source of P >= 1 non-empty search pages (pages 1..P-1
\* signal a next page, page P does not) whose requests are answered and whose
\* detail fetches all succeed with a non-empty body, the finished generator
\* has yielded one record per identifier and made exactly P page requests.
C3_AsStated ==
    ( /\ e_pc = "done"
      /\ nServed >= 1
      /\ ~reqFailed
      /\ ~detailNotFull
      /\ ~emptyServed )
    => PaginationComplete

\* C3 amended: the same, for pages that each list at least one summary with
\* an extractable identifier.
C3_PaginationTermination ==
    ( /\ e_pc = "done"
      /\ nServed >= 1
      /\ ~reqFailed
      /\ ~detailNotFull
      /\ ~emptyServed
      /\ ~keylessServed )
    => PaginationComplete

\* pages of 2 and 1 items, next = true then false: 3 records, 2 page requests
C3_Witness ==
    /\ variant = "ctis"
    /\ e_pc = "done"
    /\ ~reqFailed /\ ~detailNotFull /\ ~emptyServed /\ ~keylessServed
    /\ nServed = 2
    /\ nIds = 3
    /\ search_results = [items |-> <<"key">>, next |-> FALSE]
    /\ nYielded = 3
    /\ nPageReqs = 2

C5_DeltaFilterPropagation ==
    lastReq # NoReq =>
        /\ lastReq.page \in {page - 1, page}
        /\ since \in Dates => lastReq.filter = since
        /\ since = None => lastReq.filter = NoFilter

\* a since-date was given and a request for page 2 has been sent
C5_Witness ==
    /\ since \in Dates
    /\ lastReq.page = 2
    /\ lastReq.filter = since

\* C13: a search-page request is sent only when every detail fetch
\* dispatched for the page before has completed and has been taken by the
\* loop (yielded or skipped), and it asks for the page after the last page
\* served, or again for the same page; a record is yielded only from a
\* detail fetch of the page requested last, so the output is the
\* concatenation, page by page, of the pages' records. (Steps of one
\* invocation; a new invocation starts its own count.)
C13_PageByPage ==
    [][ /\ (invocation' = invocation /\ nPageReqs' # nPageReqs) =>
            /\ consumed = DOMAIN tasks
            /\ completedQ = <<>>
            /\ \A i \in DOMAIN tasks : tasks[i].res # "-"
            /\ YieldedSet = ResultIn({"full"})
            /\ lastReq'.page = page
            /\ lastReq'.page = nServed + 1
        /\ (invocation' = invocation /\ nYielded' # nYielded) =>
            /\ nYielded' = nYielded + 1
            /\ lastReq.page = page
            /\ page' \in {page, page + 1}
            /\ \E i \in DOMAIN tasks : yielded' = Append(yielded, i)
      ]_vars

\* page 2 has been requested after both records of page 1 were yielded
C13_Witness ==
    /\ lastReq.page = 2
    /\ lastReq.out = "ok"
    /\ nYielded = 3
    /\ nIds = 3
    /\ yielded = <<1>>
    /\ e_pc = "done"

\* the last search-page fetch returned nothing (ctis: the request failed;
\* euctr: the last attempt _fetch_url makes failed) or a page without
\* summaries
PageFetchFailedOrEmpty ==
    /\ lastReq # NoReq
    /\ \/ lastReq.out # "ok" /\ p_att = 0
       \/ lastReq.out = "ok" /\ search_results.items = <<>>

\* C14: when a search-page fetch fails (non-2xx status, timeout, transport
\* error) or returns an absent or empty result list, the generator ends:
\* no detail fetch is dispatched for that page, no record of it is yielded,
\* no further page is requested and nothing is raised.
C14_FailedPageEnds ==
    PageFetchFailedOrEmpty =>
        /\ e_pc = "done"
        /\ tasks = <<>>
        /\ completedQ = <<>>
        /\ yielded = <<>>
        /\ lastReq.page = page
        /\ ~e_raised

\* page 1 was served and its records yielded; the request for page 2 failed
C14_Witness ==
    /\ lastReq.page = 2
    /\ lastReq.out = "transport"
    /\ p_att = 0
    /\ nYielded = 2
    /\ e_pc = "done"
    /\ tasks = <<>>

\* the summaries of the page that carry a natural key
Keyed == {i \in 1..Len(search_results.items) : search_results.items[i] = "key"}

\* C15 (CtisExtractor): the detail fetches dispatched for a page are those
\* of its summaries that carry a ctNumber, no other; and when a served page
\* has summaries but none carries a ctNumber, the extraction ends there
\* with no detail fetch and no further page request, whatever the page's
\* nextPage says.
C15_KeylessSummaries ==
    variant = "ctis" =>
        /\ DOMAIN tasks = Keyed
        /\ ( /\ lastReq.out = "ok"
             /\ search_results.items # <<>>
             /\ Keyed = {} )
           => ( /\ e_pc = "done"
                /\ tasks = <<>>
                /\ lastReq.page = page
                /\ nPageReqs = page
                /\ ~e_raised )

\* page 1 had one summary with a key, fetched and yielded; page 2 has one
\* summary without a key and signals a next page: the extraction is over
C15_Witness ==
    /\ variant = "ctis"
    /\ lastReq.page = 2
    /\ nIds = 1
    /\ nYielded = 1
    /\ search_results = [items |-> <<"nokey">>, next |-> TRUE]
    /\ e_pc = "done"
    /\ nPageReqs = 2

\* C27: the detail fetches of a page are all dispatched when the page has
\* been read, before any of its records is yielded; a fetch that finishes
\* joins the finished ones behind those that finished before it; the record
\* yielded next is that of the earliest finished fetch not yet taken,
\* whatever its place on the page and whether or not siblings are pending.
C27_CompletionOrder ==
    [][ /\ e_pc' = "details" =>
             /\ DOMAIN tasks' = Identifiers(search_results'.items)
             /\ e_pc # "details" =>
                  /\ yielded' = <<>>
                  /\ \A i \in DOMAIN tasks' : tasks'[i].res = "-"
        /\ \A i \in DOMAIN tasks :
              ( /\ DOMAIN tasks' = DOMAIN tasks
                /\ tasks[i].res = "-"
                /\ tasks'[i].res # "-" ) => completedQ' = Append(completedQ, i)
        /\ (invocation' = invocation /\ nYielded' # nYielded) =>
              /\ completedQ # <<>>
              /\ yielded' = Append(yielded, Head(completedQ))
              /\ completedQ' = Tail(completedQ)
              /\ tasks[Head(completedQ)].res = "full" ]_vars

\* the record of the second identifier of the page has been yielded while
\* the fetch of the first is still pending
C27_Witness ==
    /\ e_pc = "details"
    /\ DOMAIN tasks = {1, 2}
    /\ yielded = <<2>>
    /\ tasks[1].res = "-"
    /\ tasks[2].res = "full"

\* a fetch that fails at attempt index att may be given up: the attempts of
\* EuctrExtractor are used up; CtisExtractor takes no attempt count, and the
\* least a retrying fetch has made before giving up is one retry
GivenUpAfterRetries(att) ==
    IF variant = "euctr" THEN att + 1 = max_retries ELSE att >= 1

\* C21 as stated: a search page or a detail record is dropped after a
\* transient failure only when the retries of its fetch are used up.
C21_AsStated ==
    [][ /\ ( /\ nPageReqs' = nPageReqs + 1
             /\ lastReq'.out \in HttpFailures
             /\ e_pc' = "done" ) => GivenUpAfterRetries(p_att)
        /\ \A i \in DOMAIN tasks :
              ( /\ DOMAIN tasks' = DOMAIN tasks
                /\ tasks[i].res = "-"
                /\ tasks'[i].res \in HttpFailures \cup {None} )
              => GivenUpAfterRetries(tasks[i].att) ]_vars

\* C31: search pages are requested in increasing order from 1, without gap
\* and without repeat: the i-th search-page fetch that an invocation of
\* extract_trials calls carries page number i, every request sent for it
\* carries that number, and the fetch still to be called carries the next
\* one; this holds in every invocation, whatever page the one before ended on.
C31_PagesInOrder ==
    /\ \A i \in 1..Len(pageCalls) : pageCalls[i] = i
    /\ lastReq # NoReq => lastReq.page = Len(pageCalls)
    /\ (e_pc = "fetch_page" /\ p_att = 0) => page = Len(pageCalls) + 1

\* a later invocation has called the fetches of pages 1, 2 and 3 and has
\* yielded records
C31_Witness ==
    /\ invocation = MaxInvocations
    /\ pageCalls = <<1, 2, 3>>
    /\ lastReq.page = 3
    /\ nYielded >= 2

\* C32: within one invocation the page counter moves only from n to n + 1,
\* and only when the answer to the request of page n was served with a truthy
\* next-page signal; when the last detail fetch of a page whose answer has no
\* such signal has been taken, the generator is DONE; and DONE is terminal:
\* from then on the generator sends no page request, runs no detail fetch
\* and yields nothing.
C32_NextPageOnSignal ==
    [][ invocation' = invocation =>
          /\ page' # page =>
                /\ page' = page + 1
                /\ search_results'.next
                /\ lastReq'.page = page
                /\ lastReq'.out = "ok"
          /\ ( /\ e_pc = "details"
               /\ consumed' # consumed
               /\ consumed' = DOMAIN tasks
               /\ ~search_results.next ) => e_pc' = "done"
          /\ e_pc = "done" =>
                UNCHANGED <<e_pc, page, pageCalls, lastReq, nPageReqs, tasks,
                            completedQ, consumed, yielded, nYielded>> ]_vars

\* page 1 signalled a next page, page 2 did not: the generator is DONE after
\* the details of page 2
C32_Witness ==
    /\ e_pc = "done"
    /\ pageCalls = <<1, 2>>
    /\ search_results.items # <<>>
    /\ ~search_results.next
    /\ consumed = DOMAIN tasks
    /\ consumed # {}
    /\ nYielded >= 2

MalformedLoads ==
    {k \in 1..Len(s_log) :
        /\ s_log[k].op = "bulk_load_stream"
        /\ \E i \in 1..Len(s_log[k].lines) : s_log[k].lines[i].kind = "extra_col"}

\* C6: the transaction is committed if and only if the body of the with ends
\* without an exception; until the with is left nothing done in the body is
\* visible; after an exception the transaction is rolled back, the database
\* holds what it held before (tables and rows), and the exception reaches
\* the caller.
C6_CommitIffNoException ==
    /\ s_pc \in {"body", "raising"} => db = db0
    /\ s_pc = "exited" =>
         /\ (tx_end = "commit") <=> (exc = NoExc)
         /\ exc = NoExc => (db = tx /\ s_raised = NoExc)
         /\ exc # NoExc => ( /\ tx_end = "rollback"
                             /\ db = db0
                             /\ s_raised = exc )
         /\ conn = "closed"

\* the body created the table, inserted a row and then raised a ValueError:
\* the table does not exist afterwards
C6_Witness ==
    /\ s_pc = "exited"
    /\ Len(s_log) = 2
    /\ s_log[1].stmt = "CREATE TABLE" /\ s_log[1].ok
    /\ s_log[2].stmt = "INSERT" /\ s_log[2].ok
    /\ tx.bronze = <<InitialRow>>
    /\ exc = "ValueError"
    /\ s_raised = "ValueError"
    /\ db = EmptyDb

\* C8: a bulk load of a stream with a malformed line raises; the transaction
\* is rolled back; none of the stream's rows is visible afterwards and the
\* rows the table held before are unchanged.
C8_BulkLoadAtomic ==
    \A k \in MalformedLoads :
        /\ ~s_log[k].ok
        /\ k = Len(s_log)
        /\ exc = DbError
        /\ db = db0
        /\ s_pc = "exited" =>
             /\ tx_end = "rollback"
             /\ s_raised = DbError
             /\ db.bronze = db0.bronze

\* the table held one row; a stream of a good line and a line with an extra
\* column was loaded: the good row reached the transaction, not the table
C8_Witness ==
    /\ s_pc = "exited"
    /\ db0.bronze = <<InitialRow>>
    /\ Len(s_log) = 1
    /\ s_log[1].op = "bulk_load_stream"
    /\ s_log[1].lines = <<GoodLine, BadLine>>
    /\ tx.bronze = <<InitialRow, RowOf(GoodLine)>>
    /\ db.bronze = <<InitialRow>>
    /\ s_raised = DbError

\* C19 as stated: execute_sql or bulk_load_stream called on a loader outside
\* the with, before __enter__ or after __exit__, raises RuntimeError.
C19_AsStated ==
    outside # NoOutside => outside.raised = "RuntimeError"

\* ====================================================================
\* Properties of the release of the connection (SpecRelease)
\* ====================================================================
\* C22: once the with is left the connection is closed, and so is the
\* loader's cursor: after a body that ended normally, after a body that
\* raised, and when the commit or rollback of the exit itself raised, in
\* which case that error reaches the caller and nothing was committed.
C22_ConnectionReleased ==
    s_pc = "exited" =>
        /\ conn = "closed"
        /\ impl = "loader" => cursor = "closed"
        /\ ~end_ok => (s_raised = DbError /\ db = db0)

\* the body wrote a row and ended normally, the commit raised: the
\* connection and the cursor are closed all the same
C22_Witness ==
    /\ s_pc = "exited"
    /\ impl = "loader"
    /\ ~end_ok
    /\ exc = NoExc
    /\ tx_end = "commit"
    /\ tx # db0
    /\ conn = "closed"
    /\ cursor = "closed"
    /\ s_raised = DbError

\* ====================================================================
\* Properties of arun_pipeline (SpecPipeline)
\* ====================================================================
\* the records of the source have distinct natural keys
DistinctKeys ==
    \A i, j \in 1..Len(source) : source[i].key = source[j].key => i = j
\* the last run has ended with a failure
LastRunFailed == p_pc = "idle" /\ runs >= 1 /\ exc # NoExc

\* C7: after a failed run the database holds exactly what it held before
\* the run, the rows a successful bulk load of that run put into Bronze
\* included, and the failure is raised to the caller; while a run is under
\* way nothing of it is visible.
C7_RunAtomic ==
    /\ p_pc \notin {"idle"} => db = db0
    /\ LastRunFailed =>
         /\ db = db0
         /\ tx_end = "rollback"
         /\ p_raised = exc

\* the second run loaded its rows into Bronze and then failed in the
\* transform: Bronze and Silver hold what the first run committed
C7_Witness ==
    /\ LastRunFailed
    /\ runs = 2
    /\ loaded
    /\ Len(tx.bronze) > Len(db.bronze)
    /\ Len(db.bronze) > 0
    /\ db.silver # <<>>
    /\ p_raised = DbError

\* C9 as stated: after k successful full runs against a source of N records
\* with distinct natural keys, Bronze holds k*N rows and Silver N rows.
C9_AsStated ==
    ( /\ p_pc = "idle"
      /\ runs >= 1
      /\ all_ok_full
      /\ DistinctKeys )
    => ( /\ Len(db.bronze) = runs * Len(source)
         /\ Len(db.silver) = Len(source) )

\* the natural keys that have a Bronze row in database d
BronzeKeys(d) == {k \in KeySet : RowsOf(d.bronze, k) # {}}
\* the Silver rows of natural key k in database d
SilverRowsOf(d, k) == {j \in 1..Len(d.silver) : d.silver[j].trial_id = k}

\* C11: whatever runs have committed, Silver holds exactly one row for every
\* natural key that has a Bronze row and none for any other key, and that
\* row is the newest Bronze row of the key (the most recent load, the last
\* row of that load).
C11_SilverOneRowPerKey ==
    /\ \A k \in BronzeKeys(db) :
         /\ Cardinality(SilverRowsOf(db, k)) = 1
         /\ \A j \in SilverRowsOf(db, k) :
              \E i \in RowsOf(db.bronze, k) :
                 /\ db.silver[j].data = db.bronze[i].data
                 /\ \A h \in RowsOf(db.bronze, k) :
                      \/ db.bronze[h].load_id < db.bronze[i].load_id
                      \/ db.bronze[h].load_id = db.bronze[i].load_id /\ h <= i
    /\ \A j \in 1..Len(db.silver) : db.silver[j].trial_id \in BronzeKeys(db)

\* two committed runs of a source that lists one key twice with different
\* contents: one Silver row, with the content of the later record
C11_Witness ==
    /\ p_pc = "idle"
    /\ runs = 2
    /\ all_ok_full
    /\ Len(source) = 2
    /\ source[1].key = source[2].key
    /\ source[1].data # source[2].data
    /\ Len(db.silver) = 1
    /\ db.silver[1].data = source[2].data
    /\ Len(db.bronze) > 4

\* the sink operations of the run under way (or of the last run), by name
SinkOps ==
    [k \in 1..Len(s_log) |->
        IF s_log[k].op = "bulk_load_stream" THEN "bulk_load_stream"
        ELSE s_log[k].stmt]
RunOrder == <<"create_bronze_table", "create_silver_tables",
              "bulk_load_stream", "upsert_trials">>

\* C12: the sink operations of a run are, in this order, create Bronze
\* table, create Silver tables, bulk_load_stream, transform; each is started
\* only after the one before it returned successfully, so the transform is
\* never started after a bulk load that raised or without a bulk load; all
\* of them run on the one connection and transaction the run opened.
C12_RunOrder ==
    /\ Len(s_log) <= Len(RunOrder)
    /\ \A k \in 1..Len(s_log) :
         /\ SinkOps[k] = RunOrder[k]
         /\ k < Len(s_log) => s_log[k].ok
    /\ p_pc \in {"prepare", "extract", "load", "transform", "exit"} =>
         /\ conn = "open"
         /\ s_pc = "body"
         /\ tx_end = "-"
         /\ db = db0
    /\ p_pc = "transform" => loaded

\* a run whose four sink operations all succeeded, before the with is left
C12_Witness ==
    /\ p_pc = "exit"
    /\ SinkOps = RunOrder
    /\ \A k \in 1..4 : s_log[k].ok
    /\ conn = "open"
    /\ tx_end = "-"

\* C16: a run whose extraction yields no record prepares the Bronze and
\* Silver tables, calls neither bulk_load_stream nor the transform, and ends
\* without an error: its transaction commits and nothing is raised.
C16_NoRecordsNoLoad ==
    ( /\ p_pc \in {"exit", "idle"}
      /\ runs >= 1
      /\ exc = NoExc
      /\ raw_records = <<>> )
    => ( /\ SinkOps = <<"create_bronze_table", "create_silver_tables">>
         /\ \A k \in 1..Len(s_log) : s_log[k].ok
         /\ ~loaded
         /\ p_pc = "idle" =>
              /\ tx_end = "commit"
              /\ p_raised = NoExc
              /\ {"bronze", "silver"} \subseteq db.tables
              /\ db.bronze = db0.bronze
              /\ db.silver = db0.silver )

\* the source holds two records, the first run extracted none of them
C16_Witness ==
    /\ p_pc = "idle"
    /\ runs = 1
    /\ Len(source) = 2
    /\ raw_records = <<>>
    /\ exc = NoExc
    /\ tx_end = "commit"
    /\ db = [tables |-> {"bronze", "silver"}, bronze |-> <<>>, silver |-> <<>>]
    /\ Len(s_log) = 2

\* the number of records a pipeline that hands the records on one by one
\* would hold at a time
HeldBound == 1

\* C26 as stated: the records the pipeline holds are never more than a
\* fixed number, however many the source returns.
C26_AsStated ==
    Len(raw_records) <= HeldBound

\* C37: the since_date handed to extract_trials is a date only in a run in
\* DELTA mode that was given a since_date, and is then that date; a run in
\* FULL mode, with or without a since_date, and a run in DELTA mode without
\* one hand over None; and no run gets to its load without having handed
\* over one or the other.
C37_SinceOnlyInDelta ==
    /\ p_pc \in {"load", "transform"} => delta_since # "-"
    /\ delta_since # "-" =>
          /\ delta_since \in Dates \cup {None}
          /\ delta_since # None =>
                (load_mode = "delta" /\ since_date = delta_since)
          /\ load_mode = "full" => delta_since = None
          /\ since_date \in {None, ""} => delta_since = None
          /\ (load_mode = "delta" /\ since_date \in Dates) =>
                delta_since = since_date

\* a run in FULL mode that was given a since_date has extracted records
\* without a filter
C37_Witness ==
    /\ load_mode = "full"
    /\ since_date \in Dates
    /\ delta_since = None
    /\ p_pc = "load"
    /\ raw_records # <<>>

\* a line that writer.writerow(record) wrote
IsRecordLine(line) == line.kind # "header"

\* C34: the record lines of the stream handed to bulk_load_stream are, in
\* order, the records the extractor yielded in the run: one line per record,
\* with the record's key and content as yielded and with the run's load_id;
\* none is dropped, altered or repeated. (The header line of the stream is
\* the subject of C9 and C18.)
C34_OneBronzePerRecord ==
    \A k \in 1..Len(s_log) :
        s_log[k].op = "bulk_load_stream" =>
            LET rows == SelectSeq(s_log[k].lines, IsRecordLine)
            IN /\ Len(rows) = Len(raw_records)
               /\ \A i \in 1..Len(rows) :
                     /\ rows[i].kind = "row"
                     /\ rows[i].key = raw_records[i].key
                     /\ rows[i].data = raw_records[i].data
                     /\ rows[i].load_id = runs

\* the second run has handed two records to the bulk load, which took them
C34_Witness ==
    /\ runs = 2
    /\ Len(raw_records) = 2
    /\ raw_records[1] # raw_records[2]
    /\ loaded
    /\ \E k \in 1..Len(s_log) :
          /\ s_log[k].op = "bulk_load_stream"
          /\ Len(s_log[k].lines) = 3

\* ====================================================================
\* Properties of transform_bronze_to_silver (SpecTransform)
\* ====================================================================
\* C10: a second (and any later) execution of the transform on the same
\* Bronze content leaves the Silver table as the first execution left it.
C10_TransformIdempotent ==
    t_runs >= 2 => tx.silver = t_first

\* two Bronze rows of one key from two loads, a Silver table that held an
\* older row of that key: two executions, the first replaced the row
C10_Witness ==
    /\ t_runs = 2
    /\ Len(tx.bronze) = 2
    /\ tx.bronze[1].key = tx.bronze[2].key
    /\ tx.bronze[1].key # NoKey
    /\ tx.bronze[1].load_id > tx.bronze[2].load_id
    /\ tx.bronze[1].data # tx.bronze[2].data
    /\ t_first = <<SilverRow(tx.bronze[1])>>
    /\ tx.silver = t_first

\* ====================================================================
\* Properties of _records_to_csv_stream (SpecEncode)
\* ====================================================================
\* C17: encoding no record returns an empty stream: no line, hence no byte
\* and no header.
C17_EmptyEncode ==
    (enc_pc = "done" /\ enc_in = <<>>) => enc_out = <<>>

\* the encoder has returned for an empty list
C17_Witness ==
    /\ enc_pc = "done"
    /\ enc_in = <<>>
    /\ Len(enc_out) = 0

\* C18 as stated: the stream holds exactly one line per record, the line of
\* the i-th record in the i-th place.
C18_AsStated ==
    enc_pc = "done" =>
        /\ Len(enc_out) = Len(enc_in)
        /\ \A i \in 1..Len(enc_in) : enc_out[i] = RowLine(enc_in[i])

\* ====================================================================
\* Properties of the enrichment (SpecEnrich)
\* ====================================================================
\* C20 as stated: every Bronze record carries as source_url the URL its
\* detail record was fetched from.
C20_AsStated ==
    en_pc = "enriched" =>
        \A i \in 1..Len(en_bronze) :
            en_bronze[i].source_url = en_fetched[i].from

\* ====================================================================
\* Properties of example.py main (SpecExample)
\* ====================================================================
\* C23 as stated: a run opens one connection and every database operation
\* of the run, the delta-date lookup included, is made on it.
C23_AsStated ==
    /\ x_opened <= 1
    /\ \A k \in 1..Len(x_log) : x_log[k].conn = 1

\* ====================================================================
\* Properties of prepare_schema (SpecPrepare)
\* ====================================================================
\* C24 as stated: after a call of prepare_schema(table_name, schema_name)
\* the namespace and the table exist, and a repeated call changes nothing.
C24_AsStated ==
    ps_calls # <<>> =>
        LET c == ps_calls[Len(ps_calls)]
        IN /\ c.schema_name \in ps_db.schemas
           /\ <<c.schema_name, c.table_name>> \in ps_db.tables
           /\ (Len(ps_calls) = 2 /\ ps_calls[1] = ps_calls[2])
                => ps_db = ps_before

\* ====================================================================
\* Properties of the copy loop (SpecChunk)
\* ====================================================================
\* C25: the chunks written are consecutive pieces of the input that start
\* at its first byte, none is empty or longer than 8192 bytes
\* (loader/postgres.py) or 1 MiB (loaders/postgres.py); when the loop ends
\* they make up the whole input, and for an empty input nothing is written.
C25_BoundedChunks ==
    /\ \A k \in 1..Len(ch_writes) :
         /\ ch_writes[k].len >= 1
         /\ ch_impl = "loader" => ch_writes[k].len <= 8192
         /\ ch_impl = "loaders" => ch_writes[k].len <= 1048576
         /\ ch_writes[k].from = IF k = 1 THEN 0
                                ELSE ch_writes[k-1].from + ch_writes[k-1].len
    /\ ch_pc = "done" =>
         /\ ch_len = 0 => ch_writes = <<>>
         /\ ch_len > 0 =>
              /\ ch_writes # <<>>
              /\ LET last == ch_writes[Len(ch_writes)]
                 IN last.from + last.len = ch_len

\* a stream of two chunks and one byte copied by loader/postgres.py: three
\* writes, the last of one byte
C25_Witness ==
    /\ ch_pc = "done"
    /\ ch_impl = "loader"
    /\ ch_len = 16385
    /\ Len(ch_writes) = 3
    /\ ch_writes[3] = [from |-> 16384, len |-> 1]

\* ====================================================================
\* Properties of the request times (SpecRate)
\* ====================================================================
\* C28 as stated: between any two requests of the extractor at least one
\* rate_limit_delay elapses.
C28_AsStated ==
    \A i, j \in 1..Len(r_reqs) :
        i < j => r_reqs[j] - r_reqs[i] >= RateLimitDelay

\* ====================================================================
\* Properties of Fetcher.download_dataset (SpecDownload)
\* ====================================================================
\* the download request of the call, if one was sent
Downloads == SelectSeq(dl_reqs, LAMBDA r : r.url # "toc")

\* C38: a call of download_dataset whose download request ended with a
\* non-2xx status or a transport error, before or while the body was read,
\* has returned None, has raised nothing and has left no file of its
\* dataset code in the cache directory, whatever was there before; a call
\* whose dataset code the served table of contents does not list has
\* returned None after the one request for the table, and the cache
\* directory is as it was when the call began.
C38_FailedDownloadLeavesNoFile ==
    /\ (Downloads # <<>> /\ Downloads[1].out \in HttpFailures) =>
          /\ dl_pc = "done"
          /\ dl_result = None
          /\ ~dl_raised
          /\ dl_cache[dl_code] = "absent"
    /\ (dl_reqs # <<>> /\ dl_reqs[1].out = "ok" /\ dl_code \notin dl_toc) =>
          /\ dl_pc = "done"
          /\ dl_result = None
          /\ ~dl_raised
          /\ Downloads = <<>>
          /\ dl_cache = dl_cache0

\* the second call asked for the code the first one had downloaded; its
\* download broke off while the body was read, and the file is gone
C38_Witness ==
    /\ dl_calls = 2
    /\ dl_pc = "done"
    /\ dl_cache0[dl_code] = "complete"
    /\ Downloads # <<>>
    /\ Downloads[1].out = "transport"
    /\ dl_chunks >= 1
    /\ dl_cache[dl_code] = "absent"
    /\ dl_result = None

====
